---- MODULE Spec2Model ----
(***************************************************************************)
(* Model of the Local Comments extension (src/src/extension.ts, the 1.1.0  *)
(* sources starting at line 1100): the in-memory comment store, the single *)
(* pending comment of the sidebar editor, the persisted comments file and  *)
(* the staleness check of a comment against the live document.             *)
(*                                                                         *)
(* Encoding of JavaScript values:                                          *)
(*   - a string is a sequence of one-character strings, a file name        *)
(*     included;                                                           *)
(*   - a number is a record (section Numbers): a finite number is an       *)
(*     integer mantissa, in two decimal parts, times a power of two, and   *)
(*     NaN, the infinities and null have records of their own;             *)
(*   - an optional field is a sequence of length 0 (undefined / absent) or *)
(*     1 (present): timestamp, selectedText, existingCommentId;            *)
(*   - pendingComment is <<>> (undefined) or <<record>>;                   *)
(*   - commentData is a function whose DOMAIN is the set of file names the *)
(*     object has as keys, so that a key mapped to an empty array differs  *)
(*     from a missing key; keyOrder is the sequence of these keys in the   *)
(*     order of Object.entries: the keys that are array indices by         *)
(*     ascending number, then the others in the order of their creation;   *)
(*   - a comment id is its string: for an id of this session, the digits   *)
(*     of what Date.now() returned in the call of generateCommentId        *)
(*     followed by the suffix that Math.random gave.  Each call draws both *)
(*     anew, so that two calls can return the same string.                 *)
(***************************************************************************)
EXTENDS Integers, Sequences, FiniteSets, TLC

VARIABLES
    commentData,     \* extension.ts:1128  fileName -> array of Comment
    keyOrder,        \* extension.ts:1128  the keys of commentData, as Object.entries lists them
    pendingComment,  \* extension.ts:1129  the one pending edit, or undefined
    docs,            \* the text documents of the editor: fileName -> lines
    disk,            \* the comments file at getCommentFilePath()
    autoSave,        \* setting localComments.autoSave
    confirmDelete,   \* setting localComments.confirmDelete
    hideStaleComments, \* setting localComments.hideStaleComments
    deleteDialogs,   \* deleteCommentById calls waiting at showWarningMessage
    idCount,         \* the ids of the session so far, counted up to MaxIds
    lastOp           \* the handler that ran last and what it was given

vars == <<commentData, keyOrder, pendingComment, docs, disk, autoSave, confirmDelete,
          hideStaleComments, deleteDialogs, idCount, lastOp>>

----------------------------------------------------------------------------
(* Bounds of the model *)

(* the ids of a session: one for each comment of the load at start and one  *)
(* for each call of generateCommentId after it; a session generates an id   *)
(* while it has fewer than this                                             *)
MaxIds == 2
MaxTime == 2
MaxDialogs == 1

(* the file names of the documents of the editor, /a.ts and /b.ts *)
FileA == <<"/", "a", ".", "t", "s">>
FileB == <<"/", "b", ".", "t", "s">>

Files == {FileA, FileB}

(* Texts the user types into the sidebar editor: a tab and a space, and two *)
(* letters.                                                                *)
Texts == {<<"\t", " ">>, <<"x">>, <<"y">>}

----------------------------------------------------------------------------
(* Strings *)

(* the characters that \s of a regular expression (1358) and                *)
(* String.prototype.trim (1432) take as whitespace: tab, line feed,         *)
(* vertical tab, form feed, carriage return, space, no-break space, U+1680  *)
(* and U+FEFF.  The remaining ones (U+2000 to U+200A, U+2028, U+2029,       *)
(* U+202F, U+205F, U+3000) cannot be written in a string of this language   *)
(* and are outside the alphabet of the model.                               *)
WhiteSpace == {"\t", "\n", "", "\f", "\r", " ", " ", " ", "﻿"}

IsWhitespace(ch) == ch \in WhiteSpace

RECURSIVE TrimStart(_)
TrimStart(s) ==
    IF s = <<>> THEN <<>>
    ELSE IF IsWhitespace(Head(s)) THEN TrimStart(Tail(s)) ELSE s

RECURSIVE TrimEnd(_)
TrimEnd(s) ==
    IF s = <<>> THEN <<>>
    ELSE IF IsWhitespace(s[Len(s)]) THEN TrimEnd(SubSeq(s, 1, Len(s) - 1)) ELSE s

(* String.prototype.trim *)
Trim(s) == TrimEnd(TrimStart(s))

(* text.replace(/\s+/g, ' '): every maximal run of whitespace becomes one space *)
RECURSIVE ReplaceWhitespaceRuns(_)
ReplaceWhitespaceRuns(s) ==
    IF s = <<>> THEN <<>>
    ELSE IF IsWhitespace(Head(s))
         THEN <<" ">> \o ReplaceWhitespaceRuns(TrimStart(s))
         ELSE <<Head(s)>> \o ReplaceWhitespaceRuns(Tail(s))

normalizeTextNoTrim(text) == ReplaceWhitespaceRuns(text)
normalizeText(text) == ReplaceWhitespaceRuns(Trim(text))

----------------------------------------------------------------------------
(* Optional values *)

None == <<>>
Some(x) == <<x>>
IsSome(o) == o # <<>>
Get(o) == o[1]

(* JavaScript truthiness of an optional string: undefined and '' are falsy *)
TruthyString(o) == IsSome(o) /\ Get(o) # <<>>

----------------------------------------------------------------------------
(* Numbers                                                                 *)
(* A number of JavaScript is a record.  A finite number, an integer, is    *)
(* its mantissa times 2^exp; the mantissa is hi * 10^8 + lo, hi for the    *)
(* digits before the last eight of its decimal notation and lo for the     *)
(* last eight, and neither part of a negative number is positive.  exp is  *)
(* 0 for the numbers below 2^53 in magnitude; the mantissa of the others   *)
(* has 53 bits: the finite numbers are the integers that a double holds.   *)
(* The other kinds are NaN, the two infinities (hi is the sign) and null,  *)
(* which the comments file can have in the place of a number and which     *)
(* counts as 0 in arithmetic and in comparisons.  Minus zero is zero.      *)

Base == 100000000
BaseDigits == 8

DigitChar(d) ==
    CASE d = 0 -> "0" [] d = 1 -> "1" [] d = 2 -> "2" [] d = 3 -> "3" [] d = 4 -> "4"
      [] d = 5 -> "5" [] d = 6 -> "6" [] d = 7 -> "7" [] d = 8 -> "8" [] d = 9 -> "9"

RECURSIVE ToDigits(_)
(* the decimal digits of an integer from 0 to 2^31 - 1 *)
ToDigits(n) ==
    IF n < 10 THEN <<DigitChar(n)>> ELSE ToDigits(n \div 10) \o <<DigitChar(n % 10)>>

DigitValue(ch) ==
    CASE ch = "0" -> 0 [] ch = "1" -> 1 [] ch = "2" -> 2 [] ch = "3" -> 3
      [] ch = "4" -> 4 [] ch = "5" -> 5 [] ch = "6" -> 6 [] ch = "7" -> 7
      [] ch = "8" -> 8 [] ch = "9" -> 9

RECURSIVE ParseDigits(_, _)
ParseDigits(s, acc) ==
    IF s = <<>> THEN acc ELSE ParseDigits(Tail(s), acc * 10 + DigitValue(Head(s)))

Number(hi, lo) == [kind |-> "finite", hi |-> hi, lo |-> lo, exp |-> 0]

(* the number (hi * 10^8 + lo) * 2^exp *)
Double(hi, lo, exp) == [kind |-> "finite", hi |-> hi, lo |-> lo, exp |-> exp]

NaN == [kind |-> "NaN", hi |-> 0, lo |-> 0, exp |-> 0]
Infinity == [kind |-> "Infinity", hi |-> 1, lo |-> 0, exp |-> 0]
NegativeInfinity == [kind |-> "Infinity", hi |-> 0 - 1, lo |-> 0, exp |-> 0]
Null == [kind |-> "null", hi |-> 0, lo |-> 0, exp |-> 0]

(* the number that the integer n is *)
Num(n) ==
    IF n >= 0 THEN Number(n \div Base, n % Base)
    ELSE Number(0 - ((0 - n) \div Base), 0 - ((0 - n) % Base))

(* the integer that a number of less than 32 bits is *)
ToInt(x) == x.hi * Base + x.lo

(* Number.MAX_SAFE_INTEGER, 2^53 - 1 = 9007199254740991 *)
MAX_SAFE_INTEGER == Number(90071992, 54740991)

(* the largest exponent of a finite number: the largest double is          *)
(* (2^53 - 1) * 2^971; and a number of more than 309 digits is not finite  *)
MaxExponent == 971
MaxDecimalDigits == 309

(* ToNumber: null is 0 *)
ToNumber(x) == IF x.kind = "null" THEN Number(0, 0) ELSE x

Abs(n) == IF n < 0 THEN 0 - n ELSE n

(* the sign of a number: -1, 0 or 1; 0 for NaN *)
Sign(x) == IF x.hi > 0 \/ x.lo > 0 THEN 1 ELSE IF x.hi < 0 \/ x.lo < 0 THEN 0 - 1 ELSE 0

(* |x| < |y|, for numbers that are not NaN *)
MagnitudeLess(x, y) ==
    IF x.kind = "Infinity" THEN FALSE
    ELSE IF y.kind = "Infinity" THEN TRUE
         ELSE \/ x.exp < y.exp
              \/ /\ x.exp = y.exp
                 /\ \/ Abs(x.hi) < Abs(y.hi)
                    \/ Abs(x.hi) = Abs(y.hi) /\ Abs(x.lo) < Abs(y.lo)

LessNumber(x, y) ==
    /\ x.kind # "NaN" /\ y.kind # "NaN"
    /\ \/ Sign(x) < Sign(y)
       \/ /\ Sign(x) = Sign(y)
          /\ IF Sign(x) > 0 THEN MagnitudeLess(x, y) ELSE MagnitudeLess(y, x)

(* x < 0 *)
IsNegative(x) == Sign(ToNumber(x)) < 0

(* x < y: false when one of them is NaN *)
Less(x, y) == LessNumber(ToNumber(x), ToNumber(y))

(* x <= y *)
LessEq(x, y) ==
    /\ ToNumber(x).kind # "NaN" /\ ToNumber(y).kind # "NaN"
    /\ (ToNumber(x) = ToNumber(y) \/ LessNumber(ToNumber(x), ToNumber(y)))

(* x >= y and x > y *)
GreaterEq(x, y) == LessEq(y, x)
Greater(x, y) == Less(y, x)

(* x === y, for two numbers or nulls: NaN equals nothing *)
StrictEquals(x, y) == x.kind # "NaN" /\ x = y

(* Math.min *)
MinNum(x, y) ==
    IF ToNumber(x).kind = "NaN" \/ ToNumber(y).kind = "NaN" THEN NaN
    ELSE IF LessEq(x, y) THEN ToNumber(x) ELSE ToNumber(y)

(* Natural numbers of any size: the sequence of the decimal digits, as     *)
(* integers, the most significant first and not 0; the empty sequence is   *)
(* 0.  A loop over the digits is computed on the two halves of its range,  *)
(* the carry of the first going into the second, and the value of each     *)
(* step once, as the element of a set.                                     *)
Zeros(n) == [i \in 1..n |-> 0]

StripZeros(d) ==
    IF \A i \in 1..Len(d) : d[i] = 0 THEN <<>>
    ELSE SubSeq(d, CHOOSE i \in 1..Len(d) : d[i] # 0 /\ \A j \in 1..(i - 1) : d[j] = 0,
                Len(d))

BigLess(a, b) ==
    IF Len(a) # Len(b) THEN Len(a) < Len(b)
    ELSE \E i \in 1..Len(a) : a[i] < b[i] /\ \A j \in 1..(i - 1) : a[j] = b[j]

RECURSIVE IntBig(_)
(* the digits of an integer from 0 to 2^31 - 1 *)
IntBig(n) == IF n = 0 THEN <<>> ELSE IntBig(n \div 10) \o <<n % 10>>

RECURSIVE BigInt(_, _)
(* the integer that up to nine digits are *)
BigInt(d, acc) == IF d = <<>> THEN acc ELSE BigInt(Tail(d), acc * 10 + Head(d))

(* the digit of the place 10^i *)
FromRight(d, i) == IF i < Len(d) THEN d[Len(d) - i] ELSE 0

(* the largest factor and divisor of one step: 2^26 *)
MaxShift == 26

RECURSIVE DivideRange(_, _, _, _, _)
(* the digits i to j of the quotient by k, and the remainder, from the     *)
(* remainder of the digits before *)
DivideRange(d, k, i, j, carry) ==
    IF i > j THEN [digits |-> <<>>, carry |-> carry]
    ELSE IF i = j
         THEN [digits |-> <<(carry * 10 + d[i]) \div k>>, carry |-> (carry * 10 + d[i]) % k]
         ELSE CHOOSE r \in UNION {
                  { [digits |-> first.digits \o second.digits, carry |-> second.carry] :
                       second \in { DivideRange(d, k, ((i + j) \div 2) + 1, j, first.carry) } } :
                  first \in { DivideRange(d, k, i, (i + j) \div 2, carry) } } : TRUE

(* d div k and d mod k, for k up to 2^26 *)
BigDivMod(d, k) ==
    CHOOSE r \in { [quot |-> StripZeros(q.digits), rem |-> q.carry] :
                      q \in { DivideRange(d, k, 1, Len(d), 0) } } : TRUE

RECURSIVE TimesRange(_, _, _, _, _)
(* the digits i to j of the product by k, and the carry, from the carry of *)
(* the digits after                                                        *)
TimesRange(d, k, i, j, carry) ==
    IF i > j THEN [digits |-> <<>>, carry |-> carry]
    ELSE IF i = j
         THEN [digits |-> <<(d[i] * k + carry) % 10>>, carry |-> (d[i] * k + carry) \div 10]
         ELSE CHOOSE r \in UNION {
                  { [digits |-> first.digits \o second.digits, carry |-> first.carry] :
                       first \in { TimesRange(d, k, i, (i + j) \div 2, second.carry) } } :
                  second \in { TimesRange(d, k, ((i + j) \div 2) + 1, j, carry) } } : TRUE

(* d * k + c, for k and c up to 2^26 *)
BigTimesPlus(d, k, c) ==
    CHOOSE r \in { IntBig(p.carry) \o p.digits :
                      p \in { TimesRange(d, k, 1, Len(d), c) } } : TRUE

RECURSIVE AddRange(_, _, _, _, _)
(* the digits of the places 10^i to 10^j of the sum, and the carry *)
AddRange(a, b, i, j, carry) ==
    IF i > j THEN [digits |-> <<>>, carry |-> carry]
    ELSE IF i = j
         THEN [digits |-> <<(FromRight(a, i) + FromRight(b, i) + carry) % 10>>,
               carry |-> (FromRight(a, i) + FromRight(b, i) + carry) \div 10]
         ELSE CHOOSE r \in UNION {
                  { [digits |-> high.digits \o low.digits, carry |-> high.carry] :
                       high \in { AddRange(a, b, ((i + j) \div 2) + 1, j, low.carry) } } :
                  low \in { AddRange(a, b, i, (i + j) \div 2, carry) } } : TRUE

BigAdd(a, b) ==
    CHOOSE r \in { IntBig(s.carry) \o s.digits :
                      s \in { AddRange(a, b, 0, (IF Len(a) >= Len(b) THEN Len(a) ELSE Len(b)) - 1, 0) } } : TRUE

RECURSIVE SubRange(_, _, _, _, _)
(* the digits of the places 10^i to 10^j of the difference, and the borrow *)
SubRange(a, b, i, j, borrow) ==
    IF i > j THEN [digits |-> <<>>, carry |-> borrow]
    ELSE IF i = j
         THEN [digits |-> <<(FromRight(a, i) - FromRight(b, i) - borrow + 10) % 10>>,
               carry |-> IF FromRight(a, i) - FromRight(b, i) - borrow < 0 THEN 1 ELSE 0]
         ELSE CHOOSE r \in UNION {
                  { [digits |-> high.digits \o low.digits, carry |-> high.carry] :
                       high \in { SubRange(a, b, ((i + j) \div 2) + 1, j, low.carry) } } :
                  low \in { SubRange(a, b, i, (i + j) \div 2, borrow) } } : TRUE

(* a - b, for a >= b *)
BigSub(a, b) == StripZeros(SubRange(a, b, 0, Len(a) - 1, 0).digits)

(* 2^53 and 2^63 *)
Two53 == <<9, 0, 0, 7, 1, 9, 9, 2, 5, 4, 7, 4, 0, 9, 9, 2>>
Two63 == <<9, 2, 2, 3, 3, 7, 2, 0, 3, 6, 8, 5, 4, 7, 7, 5, 8, 0, 8>>

RECURSIVE ShiftRight(_, _)
(* big shifted right by n bits, and whether a 1 was shifted out: by one    *)
(* half of the bits and then by the other                                  *)
ShiftRight(big, n) ==
    IF n <= MaxShift
    THEN CHOOSE r \in { [quot |-> h.quot, sticky |-> h.rem # 0] :
                           h \in { BigDivMod(big, 2 ^ n) } } : TRUE
    ELSE CHOOSE r \in UNION {
             { [quot |-> second.quot, sticky |-> first.sticky \/ second.sticky] :
                  second \in { ShiftRight(first.quot, n - (n \div 2)) } } :
             first \in { ShiftRight(big, n \div 2) } } : TRUE

(* a number of bits that a natural number of 2^63 or more has above its    *)
(* lowest 62 bits at least: it is 10^(n - 1) or more for its n digits, and *)
(* 10 is more than 2^3.321                                                 *)
SpareBits(big) ==
    IF ((Len(big) - 1) * 3321) \div 1000 < 62 THEN 0
    ELSE ((Len(big) - 1) * 3321) \div 1000 - 62

RECURSIVE RoundFrom(_, _, _, _)
(* the double nearest to a natural number, ties to the even mantissa: q is *)
(* the number shifted right by exp bits, round the last bit shifted out,   *)
(* sticky whether a 1 was shifted out before it.  The number is shifted by *)
(* ten bits at a time while it has more than 63.                            *)
RoundFrom(q, exp, round, sticky) ==
    IF BigLess(q, Two53)
    THEN IF ~(round = 1 /\ (sticky \/ FromRight(q, 0) % 2 = 1))
         THEN [mantissa |-> q, exp |-> exp]
         ELSE IF BigAdd(q, <<1>>) = Two53
              THEN [mantissa |-> BigDivMod(Two53, 2).quot, exp |-> exp + 1]
              ELSE [mantissa |-> BigAdd(q, <<1>>), exp |-> exp]
    ELSE IF BigLess(q, Two63)
         THEN CHOOSE r \in { RoundFrom(h.quot, e, h.rem, s) :
                                h \in { BigDivMod(q, 2) }, e \in { exp + 1 },
                                s \in { sticky \/ round = 1 } } : TRUE
         ELSE CHOOSE r \in { RoundFrom(h.quot, e, 0, s \/ h.rem # 0) :
                                h \in { BigDivMod(q, 1024) }, e \in { exp + 10 },
                                s \in { sticky \/ round = 1 } } : TRUE

(* the bits a large number has to spare are shifted out first *)
RoundToDouble(big) ==
    IF BigLess(big, Two63) THEN RoundFrom(big, 0, 0, FALSE)
    ELSE CHOOSE r \in { RoundFrom(h.quot, SpareBits(big), 0, h.sticky) :
                           h \in { ShiftRight(big, SpareBits(big)) } } : TRUE

(* the finite number with this sign, mantissa and exponent *)
PartsNumber(negative, mantissa, exp) ==
    LET n == Len(mantissa)
        hi == IF n > BaseDigits THEN BigInt(SubSeq(mantissa, 1, n - BaseDigits), 0) ELSE 0
        lo == IF n > BaseDigits THEN BigInt(SubSeq(mantissa, n - BaseDigits + 1, n), 0)
              ELSE BigInt(mantissa, 0)
    IN  IF negative THEN Double(0 - hi, 0 - lo, exp) ELSE Double(hi, lo, exp)

(* the number of JavaScript for an integer of any size, given by its sign  *)
(* and its digits; one of fewer digits than 2^53 is a double              *)
FromBig(negative, big) ==
    IF Len(big) < Len(Two53) THEN PartsNumber(negative, big, 0)
    ELSE IF Len(big) > MaxDecimalDigits
    THEN (IF negative THEN NegativeInfinity ELSE Infinity)
    ELSE CHOOSE x \in { IF r.exp > MaxExponent
                        THEN (IF negative THEN NegativeInfinity ELSE Infinity)
                        ELSE PartsNumber(negative, r.mantissa, r.exp) :
                           r \in { RoundToDouble(big) } } : TRUE

RECURSIVE TimesTwoTo(_, _)
(* big * 2^n: by one half of the bits and then by the other *)
TimesTwoTo(big, n) ==
    IF n <= MaxShift THEN BigTimesPlus(big, 2 ^ n, 0)
    ELSE CHOOSE r \in { TimesTwoTo(half, n - (n \div 2)) :
                           half \in { TimesTwoTo(big, n \div 2) } } : TRUE

(* the digits of |x|, for a finite number *)
Magnitude(x) ==
    TimesTwoTo(StripZeros(IntBig(Abs(x.hi))
                          \o Zeros(BaseDigits - Len(IntBig(Abs(x.lo)))) \o IntBig(Abs(x.lo))),
               x.exp)

(* the number hi * 10^8 + lo, for lo between -2 * 10^8 and 2 * 10^8 *)
Normal(hi, lo) ==
    LET h == hi + (lo \div Base)
        l == lo % Base
    IN  IF h < 0 /\ l > 0 THEN Number(h + 1, l - Base) ELSE Number(h, l)

(* the sum of two finite numbers, rounded to a double *)
BigPlus(x, y) ==
    IF Sign(x) * Sign(y) >= 0
    THEN FromBig(Sign(x) < 0 \/ Sign(y) < 0, BigAdd(Magnitude(x), Magnitude(y)))
    ELSE IF Magnitude(x) = Magnitude(y) THEN Number(0, 0)
         ELSE IF BigLess(Magnitude(x), Magnitude(y))
              THEN FromBig(Sign(y) < 0, BigSub(Magnitude(y), Magnitude(x)))
              ELSE FromBig(Sign(x) < 0, BigSub(Magnitude(x), Magnitude(y)))

(* -x *)
Negate(x) == [ToNumber(x) EXCEPT !.hi = 0 - ToNumber(x).hi, !.lo = 0 - ToNumber(x).lo]

(* x + y: the two parts are added when the sum is below 2^53 *)
Plus(a, b) ==
    LET x == ToNumber(a)
        y == ToNumber(b)
    IN  IF x.kind = "NaN" \/ y.kind = "NaN" THEN NaN
        ELSE IF x.kind = "Infinity"
             THEN (IF y.kind = "Infinity" /\ y.hi # x.hi THEN NaN ELSE x)
             ELSE IF y.kind = "Infinity" THEN y
                  ELSE IF /\ x.exp = 0 /\ y.exp = 0
                          /\ ~MagnitudeLess(MAX_SAFE_INTEGER, Normal(x.hi + y.hi, x.lo + y.lo))
                       THEN Normal(x.hi + y.hi, x.lo + y.lo)
                       ELSE BigPlus(x, y)

(* x - y *)
Minus(x, y) == Plus(x, Negate(y))


----------------------------------------------------------------------------
(* vscode.TextDocument, vscode.Position, vscode.Range                      *)
(* A document is a non-empty sequence of lines; a position is <<line,      *)
(* character>>, two numbers, both zero-based.                              *)

lineCount(doc) == Len(doc)

LineText(doc, line) == doc[line + 1]

(* document.lineAt(line).text.length *)
lineLength(doc, line) == Num(Len(LineText(doc, ToInt(line))))

Min(a, b) == IF a <= b THEN a ELSE b

(* Position.isBefore *)
IsBefore(p, q) ==
    IF Less(p[1], q[1]) THEN TRUE
    ELSE IF Less(q[1], p[1]) THEN FALSE ELSE Less(p[2], q[2])

(* typeof x === 'number': true of every number, NaN and the infinities      *)
(* included, and not of null                                               *)
IsNumber(x) == x.kind # "null"

(* new vscode.Range(startLine, startCharacter, endLine, endCharacter)      *)
(* throws: on an argument that is not a number, for which it builds no     *)
(* positions and throws 'Invalid arguments', and on a negative line or     *)
(* character, which new vscode.Position rejects                           *)
RangeThrows(r) ==
    \/ ~IsNumber(r.startLine) \/ ~IsNumber(r.startCharacter)
    \/ ~IsNumber(r.endLine) \/ ~IsNumber(r.endCharacter)
    \/ IsNegative(r.startLine) \/ IsNegative(r.startCharacter)
    \/ IsNegative(r.endLine) \/ IsNegative(r.endCharacter)

(* new vscode.Range(startLine, startCharacter, endLine, endCharacter):     *)
(* the two positions are kept when the first is before the second, and     *)
(* exchanged otherwise                                                     *)
NewRange(r) ==
    LET p == <<r.startLine, r.startCharacter>>
        q == <<r.endLine, r.endCharacter>>
    IN  IF IsBefore(p, q) THEN [start |-> p, end |-> q] ELSE [start |-> q, end |-> p]

(* a line that is NaN is neither below 0 nor beyond the last line, and     *)
(* reading the length of that line throws; so does a line that is null,    *)
(* which no range has (RangeThrows)                                        *)
ValidateThrows(p) == p[1].kind \in {"NaN", "null"}

(* TextDocument.validatePosition: clamp into the document *)
validatePosition(doc, p) ==
    IF GreaterEq(p[1], Num(lineCount(doc)))
    THEN <<Num(lineCount(doc) - 1), lineLength(doc, Num(lineCount(doc) - 1))>>
    ELSE IF Greater(p[2], lineLength(doc, p[1]))
         THEN <<p[1], lineLength(doc, p[1])>>
         ELSE p

(* the index that String.prototype.substring makes of a character: 0 for   *)
(* NaN and null                                                            *)
ToIndex(c) == IF c.kind = "finite" THEN ToInt(c) ELSE 0

Max(a, b) == IF a >= b THEN a ELSE b

RECURSIVE JoinLines(_, _, _)
(* the whole lines from..to (zero-based), each followed by the end of line *)
JoinLines(doc, from, to) ==
    IF from > to THEN <<>>
    ELSE LineText(doc, from) \o <<"\n">> \o JoinLines(doc, from + 1, to)

(* TextDocument.getText(range) throws when the validation of a position    *)
(* does                                                                    *)
getTextThrows(range) == ValidateThrows(range.start) \/ ValidateThrows(range.end)

(* TextDocument.getText(range): the range is validated, then read *)
getText(doc, range) ==
    LET start == validatePosition(doc, range.start)
        end == validatePosition(doc, range.end)
        s == <<ToInt(start[1]), ToIndex(start[2])>>
        e == <<ToInt(end[1]), ToIndex(end[2])>>
    IN  IF s[1] = e[1]
        THEN SubSeq(LineText(doc, s[1]), Min(s[2], e[2]) + 1, Max(s[2], e[2]))
        ELSE SubSeq(LineText(doc, s[1]), s[2] + 1, Len(LineText(doc, s[1])))
             \o <<"\n">>
             \o JoinLines(doc, s[1] + 1, e[1] - 1)
             \o SubSeq(LineText(doc, e[1]), 1, e[2])

----------------------------------------------------------------------------
(* Staleness *)

isCommentStillValidExact(comment, document) ==
    IF RangeThrows(comment.range) THEN FALSE
    ELSE LET range == NewRange(comment.range)
         IN  IF GreaterEq(range.end[1], Num(lineCount(document))) THEN FALSE
             ELSE IF ~TruthyString(comment.range.selectedText)
                  THEN Less(comment.range.startLine, Num(lineCount(document)))
                  ELSE IF getTextThrows(range) THEN FALSE
                       ELSE getText(document, range) = Get(comment.range.selectedText)

isCommentStillValidByLength(comment, document) ==
    IF RangeThrows(comment.range) THEN FALSE
    ELSE LET range == NewRange(comment.range)
         IN  IF GreaterEq(range.end[1], Num(lineCount(document))) THEN FALSE
             ELSE IF getTextThrows(range) THEN FALSE
                  ELSE IF ~TruthyString(comment.range.selectedText)
                       THEN Num(Len(getText(document, range)))
                            = Minus(comment.range.endCharacter, comment.range.startCharacter)
                       ELSE normalizeText(getText(document, range))
                            = normalizeText(Get(comment.range.selectedText))

(* isCommentStillValid: whatever is thrown, by the Range constructor or by *)
(* getText, is caught and gives false                                      *)
isCommentStillValid(comment, document) ==
    IF RangeThrows(comment.range) THEN FALSE
    ELSE LET range == NewRange(comment.range)
         IN  IF GreaterEq(range.end[1], Num(lineCount(document))) THEN FALSE
             ELSE IF ~TruthyString(comment.range.selectedText)
                  THEN Less(comment.range.startLine, Num(lineCount(document)))
                  ELSE IF getTextThrows(range) THEN FALSE
                       ELSE normalizeText(getText(document, range))
                            = normalizeText(Get(comment.range.selectedText))

----------------------------------------------------------------------------
(* The comment store *)

NewCommentRange(sl, sc, el, ec, selectedText) ==
    [startLine |-> sl, startCharacter |-> sc, endLine |-> el, endCharacter |-> ec,
     selectedText |-> selectedText]

(* are the four coordinates of two CommentRanges equal, as === compares    *)
(* them: NaN equals nothing, itself included                              *)
SameCoordinates(r1, r2) ==
    /\ StrictEquals(r1.startLine, r2.startLine)
    /\ StrictEquals(r1.startCharacter, r2.startCharacter)
    /\ StrictEquals(r1.endLine, r2.endLine)
    /\ StrictEquals(r1.endCharacter, r2.endCharacter)

(* Array.prototype.findIndex(c => c.id === id), one-based; 0 stands for -1 *)
IndexOfId(comments, id) ==
    IF \E i \in 1..Len(comments) : comments[i].id = id
    THEN CHOOSE i \in 1..Len(comments) :
            /\ comments[i].id = id
            /\ \A j \in 1..(i - 1) : comments[j].id # id
    ELSE 0

(* Array.prototype.splice(index, 1) *)
RemoveAt(seq, i) == SubSeq(seq, 1, i - 1) \o SubSeq(seq, i + 1, Len(seq))

(* delete data[fileName] *)
DeleteKey(data, fileName) == [g \in (DOMAIN data) \ {fileName} |-> data[g]]

(* the key whose assignment calls the setter of Object.prototype: it       *)
(* replaces the prototype of the object and creates no property           *)
ProtoKey == <<"_", "_", "p", "r", "o", "t", "o", "_", "_">>

(* data[fileName] = value, value an array: for the key __proto__ the store *)
(* gets the array as its prototype and no key, so that Object.entries,     *)
(* Object.keys and JSON.stringify do not have it.  What the store reads    *)
(* through its prototype for a key it does not have is left out: no name   *)
(* of a document is a property of Object.prototype or of an array.         *)
SetKey(data, fileName, value) ==
    IF fileName = ProtoKey THEN data
    ELSE [g \in (DOMAIN data) \cup {fileName} |-> IF g = fileName THEN value ELSE data[g]]

(* the comments of a file; none when the store has no key for it *)
FileComments(data, f) == IF f \in DOMAIN data THEN data[f] ELSE <<>>

(* the ids of all stored comments *)
StoredIds(data) == UNION { { data[f][i].id : i \in 1..Len(data[f]) } : f \in DOMAIN data }

findExistingCommentIgnoringEnd(fileName, range) ==
    IF fileName \notin DOMAIN commentData THEN None
    ELSE LET fileComments == commentData[fileName]
             Match(i) == /\ StrictEquals(fileComments[i].range.startLine, range.start[1])
                         /\ StrictEquals(fileComments[i].range.startCharacter, range.start[2])
                         /\ StrictEquals(fileComments[i].range.endLine, range.end[1])
         IN  IF \E i \in 1..Len(fileComments) : Match(i)
             THEN Some(fileComments[CHOOSE i \in 1..Len(fileComments) :
                          Match(i) /\ \A j \in 1..(i - 1) : ~Match(j)])
             ELSE None

findLastCommentForRange(fileName, range) ==
    IF fileName \notin DOMAIN commentData THEN None
    ELSE LET fileComments == commentData[fileName]
             Match(i) == /\ StrictEquals(fileComments[i].range.startLine, range.start[1])
                         /\ StrictEquals(fileComments[i].range.startCharacter, range.start[2])
                         /\ StrictEquals(fileComments[i].range.endLine, range.end[1])
                         /\ StrictEquals(fileComments[i].range.endCharacter, range.end[2])
         IN  IF \E i \in 1..Len(fileComments) : Match(i)
             THEN Some(fileComments[CHOOSE i \in 1..Len(fileComments) :
                          Match(i) /\ \A j \in (i + 1)..Len(fileComments) : ~Match(j)])
             ELSE None

(* findExistingCommentForRange: the first comment of the file whose four   *)
(* coordinates are === those of the range, or undefined                    *)
findExistingCommentForRange(fileName, range) ==
    IF fileName \notin DOMAIN commentData THEN None
    ELSE LET fileComments == commentData[fileName]
             Match(i) == /\ StrictEquals(fileComments[i].range.startLine, range.start[1])
                         /\ StrictEquals(fileComments[i].range.startCharacter, range.start[2])
                         /\ StrictEquals(fileComments[i].range.endLine, range.end[1])
                         /\ StrictEquals(fileComments[i].range.endCharacter, range.end[2])
         IN  IF \E i \in 1..Len(fileComments) : Match(i)
             THEN Some(fileComments[CHOOSE i \in 1..Len(fileComments) :
                          Match(i) /\ \A j \in 1..(i - 1) : ~Match(j)])
             ELSE None

spliceByIdKeepEntry(data, fileName, id) ==
    IF fileName \notin DOMAIN data THEN data
    ELSE LET index == IndexOfId(data[fileName], id)
         IN  IF index = 0 THEN data
             ELSE [data EXCEPT ![fileName] = RemoveAt(data[fileName], index)]

(* findIndex by id, splice, and delete the file's key when its array is    *)
(* left empty (savePendingComment 1434-1441, deleteCommentById 2314-2321)  *)
spliceById(data, fileName, id) ==
    IF fileName \notin DOMAIN data THEN data
    ELSE LET index == IndexOfId(data[fileName], id)
         IN  IF index = 0 THEN data
             ELSE LET rest == RemoveAt(data[fileName], index)
                  IN  IF Len(rest) = 0 THEN DeleteKey(data, fileName)
                      ELSE [data EXCEPT ![fileName] = rest]

updateExistingAndRange(existing, text, range) ==
    [existing EXCEPT !.text = text, !.range = range]

(* existing.text = text; existing.range.selectedText = range.selectedText  *)
(* when the pending range has one (1449-1452)                              *)
updateExisting(existing, text, range) ==
    IF IsSome(range.selectedText)
    THEN [existing EXCEPT !.text = text, !.range.selectedText = range.selectedText]
    ELSE [existing EXCEPT !.text = text]

(* the Comment literal of 1455-1466 *)
newComment(id, text, timestamp, range) ==
    [id |-> id, text |-> text, timestamp |-> Some(timestamp),
     range |-> NewCommentRange(range.startLine, range.startCharacter,
                               range.endLine, range.endCharacter,
                               range.selectedText)]

(* the else branch of savePendingComment (1444-1468): text is not blank *)
addOrUpdate(data, pending, text, id, timestamp) ==
    LET fileName == pending.fileName
        base == IF fileName \in DOMAIN data THEN data ELSE SetKey(data, fileName, <<>>)
    IN  IF TruthyString(pending.existingCommentId)
        THEN LET index == IndexOfId(base[fileName], Get(pending.existingCommentId))
             IN  IF index = 0 THEN base
                 ELSE [base EXCEPT ![fileName][index] =
                          updateExisting(base[fileName][index], text, pending.range)]
        ELSE [base EXCEPT ![fileName] =
                 Append(base[fileName], newComment(id, text, timestamp, pending.range))]

commitPendingAnyText(data, pending, text, id, timestamp) ==
    addOrUpdate(data, pending, text, id, timestamp)

(* the store after savePendingComment(text) with this pending comment *)
commitPending(data, pending, text, id, timestamp) ==
    IF Trim(text) = <<>>
    THEN IF TruthyString(pending.existingCommentId)
         THEN spliceById(data, pending.fileName, Get(pending.existingCommentId))
         ELSE data
    ELSE addOrUpdate(data, pending, text, id, timestamp)

----------------------------------------------------------------------------
(* The comments file                                                       *)
(* disk.kind is "missing" (fs.existsSync is false), "malformed" (JSON.parse *)
(* throws) or "json"; then disk.data maps each key of the parsed object to  *)
(* its value and disk.order is the sequence of these keys in the order of   *)
(* the text.  A value is                                                    *)
(* [type |-> "array", items |-> the JSON objects of the array],             *)
(* [type |-> "object", items |-> the members, key and text, in the order of *)
(* the text] (the old format), or [type |-> "null"].                        *)
(* A JSON object is a record of the members present in the text; a JSON     *)
(* number is its sequence of digits, a JSON string the characters between   *)
(* its quotes.                                                              *)

EmptyObject == [f \in {} |-> <<>>]

DiskMissing == [kind |-> "missing", data |-> EmptyObject, order |-> <<>>]

(* a comments file whose text JSON.parse rejects, an empty file included *)
DiskMalformed == [kind |-> "malformed", data |-> EmptyObject, order |-> <<>>]

(* the legacy file {"/b.ts": {"1": "x"}} *)
DiskLegacy ==
    [kind |-> "json",
     data |-> [f \in {FileB} |->
                 [type |-> "object",
                  items |-> <<[lineNumberStr |-> <<"1">>, commentText |-> <<"x">>]>>]],
     order |-> <<FileB>>]

(* the legacy file {"/a.ts": {"0": "x"}}: its comment is migrated to line   *)
(* -1, for which new vscode.Range throws                                    *)
DiskLegacyZero ==
    [kind |-> "json",
     data |-> [f \in {FileA} |->
                 [type |-> "object",
                  items |-> <<[lineNumberStr |-> <<"0">>, commentText |-> <<"x">>]>>]],
     order |-> <<FileA>>]

(* the legacy file {"/a.ts": {"12": "\u0079", "2": "x"}}, whose first text  *)
(* is the letter y                                                          *)
DiskLegacyTwo ==
    [kind |-> "json",
     data |-> [f \in {FileA} |->
                 [type |-> "object",
                  items |-> <<[lineNumberStr |-> <<"1", "2">>,
                               commentText |-> <<"\\", "u", "0", "0", "7", "9">>],
                              [lineNumberStr |-> <<"2">>, commentText |-> <<"x">>]>>]],
     order |-> <<FileA>>]

(* the legacy file {"/b.ts": {"1": "x"}, "/a.ts": {"2": "x"}} *)
DiskLegacyBoth ==
    [kind |-> "json",
     data |-> [f \in {FileA, FileB} |->
                 [type |-> "object",
                  items |-> <<[lineNumberStr |-> IF f = FileB THEN <<"1">> ELSE <<"2">>,
                               commentText |-> <<"x">>]>>]],
     order |-> <<FileB, FileA>>]

----------------------------------------------------------------------------
(* The keys of an object, in the order of Object.entries and of             *)
(* JSON.stringify (OrdinaryOwnPropertyKeys): the keys that are array        *)
(* indices first, by ascending number, then the other keys in the order in  *)
(* which they were created                                                  *)

Digits == {"0", "1", "2", "3", "4", "5", "6", "7", "8", "9"}

RECURSIVE DigitsLess(_, _)
(* whether the number written a is less than the number written b; neither  *)
(* has a leading zero                                                       *)
DigitsLess(a, b) ==
    IF Len(a) # Len(b) THEN Len(a) < Len(b)
    ELSE IF a = <<>> THEN FALSE
         ELSE IF Head(a) # Head(b) THEN DigitValue(Head(a)) < DigitValue(Head(b))
              ELSE DigitsLess(Tail(a), Tail(b))

(* the largest array index, 2^32 - 2 *)
MaxArrayIndex == <<"4", "2", "9", "4", "9", "6", "7", "2", "9", "4">>

(* whether a key is an array index: the decimal digits, without leading     *)
(* zero, of a number from 0 to 2^32 - 2                                     *)
IsArrayIndex(key) ==
    /\ key # <<>>
    /\ \A i \in 1..Len(key) : key[i] \in Digits
    /\ (Len(key) > 1 => key[1] # "0")
    /\ ~DigitsLess(MaxArrayIndex, key)

(* the keys of an object after key k is defined on it (by JSON.parse, or by *)
(* an assignment to a key other than __proto__): a key the object had      *)
(* keeps its place; a new key that is an array index goes after the array  *)
(* indices that are smaller, any other new key goes last                   *)
KeysWith(keys, k) ==
    IF \E i \in 1..Len(keys) : keys[i] = k THEN keys
    ELSE IF IsArrayIndex(k)
         THEN LET n == Cardinality({ i \in 1..Len(keys) :
                                       IsArrayIndex(keys[i]) /\ DigitsLess(keys[i], k) })
              IN  SubSeq(keys, 1, n) \o <<k>> \o SubSeq(keys, n + 1, Len(keys))
         ELSE Append(keys, k)

(* the keys of the store after the assignment commentData[k] = ... (1168,  *)
(* 1172, 1444): the key __proto__ is not created                          *)
KeysAssigned(keys, k) == IF k = ProtoKey THEN keys ELSE KeysWith(keys, k)

(* the keys of an object after delete of key k *)
KeysWithout(keys, k) == SelectSeq(keys, LAMBDA x : x # k)

(* the keys of the store after a handler that assigns or deletes no other   *)
(* key than fileName (1439, 1444, 2320)                                     *)
KeysAfter(keys, after, fileName) ==
    IF fileName \in DOMAIN after THEN KeysAssigned(keys, fileName)
    ELSE KeysWithout(keys, fileName)

RECURSIVE OwnPropertyKeysFrom(_, _)
OwnPropertyKeysFrom(textKeys, keys) ==
    IF textKeys = <<>> THEN keys
    ELSE OwnPropertyKeysFrom(Tail(textKeys), KeysWith(keys, Head(textKeys)))

(* the keys of the object JSON.parse builds from a text that has these      *)
(* keys, each once, in this order                                           *)
OwnPropertyKeys(textKeys) == OwnPropertyKeysFrom(textKeys, <<>>)

(* Object.entries of an old-format object whose text has these members:     *)
(* the members in the order of the keys of the object                       *)
ObjectEntries(items) ==
    LET keys == OwnPropertyKeys([i \in 1..Len(items) |-> items[i].lineNumberStr])
    IN  [k \in 1..Len(items) |->
            items[CHOOSE i \in 1..Len(items) : items[i].lineNumberStr = keys[k]]]

----------------------------------------------------------------------------
(* The text of the comments file *)

(* the characters of a set that a string starts with *)
Prefix(s, chars) ==
    IF \A i \in 1..Len(s) : s[i] \in chars THEN s
    ELSE SubSeq(s, 1, (CHOOSE i \in 1..Len(s) :
                          s[i] \notin chars /\ \A j \in 1..(i - 1) : s[j] \in chars) - 1)

(* the digits a string starts with *)
DigitsPrefix(s) == Prefix(s, Digits)

(* the digits, as integers, that characters are *)
DigitValues(s) == [i \in 1..Len(s) |-> DigitValue(s[i])]

(* the exponent written after the e of a number; one of more than four     *)
(* digits counts as 9999                                                   *)
ExponentValue(s) ==
    LET negative == s # <<>> /\ Head(s) = "-"
        digits == IF s # <<>> /\ Head(s) \in {"+", "-"} THEN Tail(s) ELSE s
        value == IF Len(digits) > 4 THEN 9999 ELSE ParseDigits(digits, 0)
    IN  IF negative THEN 0 - value ELSE value

(* the digits of an integer times 10^e; for a negative e the integer ends  *)
(* with that many zeros                                                    *)
ShiftDigits(d, e) ==
    IF d = <<>> THEN <<>>
    ELSE IF e >= 0 THEN d \o Zeros(e)
         ELSE IF Len(d) + e <= 0 THEN <<>> ELSE SubSeq(d, 1, Len(d) + e)

(* the number JSON.parse reads from the characters of a number of the      *)
(* file, or null from null: digits after a minus sign or none, then a      *)
(* fraction or none, then an exponent or none.  The number is an integer.  *)
DigitsToNumber(s) ==
    IF s = <<"n", "u", "l", "l">> THEN Null
    ELSE LET negative == s # <<>> /\ Head(s) = "-"
             body == IF negative THEN Tail(s) ELSE s
             int == DigitsPrefix(body)
             afterInt == SubSeq(body, Len(int) + 1, Len(body))
             fraction == IF afterInt # <<>> /\ Head(afterInt) = "."
                         THEN DigitsPrefix(Tail(afterInt)) ELSE <<>>
             afterFraction == IF afterInt # <<>> /\ Head(afterInt) = "."
                              THEN SubSeq(afterInt, Len(fraction) + 2, Len(afterInt))
                              ELSE afterInt
             exponent == IF afterFraction = <<>> THEN 0
                         ELSE ExponentValue(Tail(afterFraction))
             digits == StripZeros(DigitValues(int \o fraction))
             shift == exponent - Len(fraction)
         IN  IF digits # <<>> /\ Len(digits) + shift > MaxDecimalDigits
             THEN (IF negative THEN NegativeInfinity ELSE Infinity)
             ELSE FromBig(negative, ShiftDigits(digits, shift))

(* the characters with the codes 1 to 95, by code; the character with the   *)
(* code 96 cannot be written in a string of this language                   *)
CodeUnits ==
  <<"", "", "", "", "", "", "", "",
    "\t", "\n", "", "\f", "\r", "", "", "",
    "", "", "", "", "", "", "", "",
    "", "", "", "", "", "", "", " ",
    "!", "\"", "#", "$", "%", "&", "'", "(",
    ")", "*", "+", ",", "-", ".", "/", "0",
    "1", "2", "3", "4", "5", "6", "7", "8",
    "9", ":", ";", "<", "=", ">", "?", "@",
    "A", "B", "C", "D", "E", "F", "G", "H",
    "I", "J", "K", "L", "M", "N", "O", "P",
    "Q", "R", "S", "T", "U", "V", "W", "X",
    "Y", "Z", "[", "\\", "]", "^", "_">>

(* and those with the codes 97 to 127 *)
LowerCodeUnits ==
  <<"a", "b", "c", "d", "e", "f", "g", "h",
    "i", "j", "k", "l", "m", "n", "o", "p",
    "q", "r", "s", "t", "u", "v", "w", "x",
    "y", "z", "{", "|", "}", "~", "">>

(* String.fromCharCode for the codes of the alphabet *)
fromCharCode(code) ==
    CASE code \in 1..95 -> CodeUnits[code]
      [] code \in 97..127 -> LowerCodeUnits[code - 96]
      [] code = 160 -> " "
      [] code = 5760 -> " "
      [] code = 65279 -> "﻿"

(* the code of a character below U+0020, and 32 for every other character *)
ControlCode(ch) ==
    IF \E c \in 1..31 : CodeUnits[c] = ch
    THEN CHOOSE c \in 1..31 : CodeUnits[c] = ch
    ELSE 32

HexDigit(d) ==
    CASE d < 10 -> DigitChar(d)
      [] d = 10 -> "a" [] d = 11 -> "b" [] d = 12 -> "c"
      [] d = 13 -> "d" [] d = 14 -> "e" [] d = 15 -> "f"

IsHexDigit(ch) ==
    ch \in {"0", "1", "2", "3", "4", "5", "6", "7", "8", "9",
            "a", "b", "c", "d", "e", "f", "A", "B", "C", "D", "E", "F"}

HexValue(ch) ==
    CASE ch \in {"a", "A"} -> 10 [] ch \in {"b", "B"} -> 11 [] ch \in {"c", "C"} -> 12
      [] ch \in {"d", "D"} -> 13 [] ch \in {"e", "E"} -> 14 [] ch \in {"f", "F"} -> 15
      [] OTHER -> DigitValue(ch)

(* what JSON.stringify writes for one character of a string: the short      *)
(* escapes, a backslash and u00xx for the other characters below U+0020,   *)
(* and the character itself otherwise                                      *)
EscapeChar(ch) ==
    CASE ch = "\"" -> <<"\\", "\"">>
      [] ch = "\\" -> <<"\\", "\\">>
      [] ch = "" -> <<"\\", "b">>
      [] ch = "\f" -> <<"\\", "f">>
      [] ch = "\n" -> <<"\\", "n">>
      [] ch = "\r" -> <<"\\", "r">>
      [] ch = "\t" -> <<"\\", "t">>
      [] OTHER ->
           IF ControlCode(ch) < 32
           THEN <<"\\", "u", "0", "0", HexDigit(ControlCode(ch) \div 16),
                  HexDigit(ControlCode(ch) % 16)>>
           ELSE <<ch>>

RECURSIVE Escape(_)
(* the characters JSON.stringify writes between the quotes of a string *)
Escape(s) ==
    IF s = <<>> THEN <<>> ELSE EscapeChar(Head(s)) \o Escape(Tail(s))

(* the character a two-character escape of JSON stands for *)
UnescapeChar(ch) ==
    CASE ch = "b" -> "" [] ch = "f" -> "\f" [] ch = "n" -> "\n"
      [] ch = "r" -> "\r" [] ch = "t" -> "\t"
      [] OTHER -> ch

RECURSIVE IsJSONString(_)
(* whether JSON.parse accepts the characters as the content of a string: no *)
(* quote and no character below U+0020 that is not escaped, and after a     *)
(* backslash a quote, a backslash, a slash, one of b f n r t, or u and four *)
(* hexadecimal digits                                                       *)
IsJSONString(s) ==
    IF s = <<>> THEN TRUE
    ELSE IF Head(s) = "\\"
         THEN IF Len(s) >= 2 /\ s[2] \in {"\"", "\\", "/", "b", "f", "n", "r", "t"}
              THEN IsJSONString(SubSeq(s, 3, Len(s)))
              ELSE IF Len(s) >= 6 /\ s[2] = "u" /\ \A i \in 3..6 : IsHexDigit(s[i])
                   THEN IsJSONString(SubSeq(s, 7, Len(s)))
                   ELSE FALSE
         ELSE IF Head(s) = "\"" \/ ControlCode(Head(s)) < 32
              THEN FALSE
              ELSE IsJSONString(Tail(s))

RECURSIVE Unescape(_)
(* the string JSON.parse reads from the characters between two quotes *)
Unescape(s) ==
    IF s = <<>> THEN <<>>
    ELSE IF Head(s) = "\\" /\ Len(s) >= 6 /\ s[2] = "u"
         THEN <<fromCharCode(4096 * HexValue(s[3]) + 256 * HexValue(s[4])
                             + 16 * HexValue(s[5]) + HexValue(s[6]))>>
              \o Unescape(SubSeq(s, 7, Len(s)))
         ELSE IF Head(s) = "\\" /\ Len(s) >= 2
              THEN <<UnescapeChar(s[2])>> \o Unescape(SubSeq(s, 3, Len(s)))
              ELSE <<Head(s)>> \o Unescape(Tail(s))

(* the characters of digits *)
DigitChars(d) == [i \in 1..Len(d) |-> DigitChar(d[i])]

StripTrailingZeros(d) ==
    IF \A i \in 1..Len(d) : d[i] = 0 THEN <<>>
    ELSE SubSeq(d, 1, CHOOSE i \in 1..Len(d) :
                         d[i] # 0 /\ \A j \in (i + 1)..Len(d) : d[j] = 0)

(* of the two numbers of n digits followed by zeros that are next to big,  *)
(* the one whose nearest double is x, and the one nearer to big when both  *)
(* are, the even one when they are as near; none when neither is           *)
ShortestOf(x, big, n) ==
    CHOOSE r \in
        { IF FromBig(FALSE, low) = x /\ FromBig(FALSE, high) = x
          THEN (IF BigLess(BigSub(big, low), BigSub(high, big)) THEN <<low>>
                ELSE IF BigLess(BigSub(high, big), BigSub(big, low)) THEN <<high>>
                     ELSE IF low[n] % 2 = 0 THEN <<low>> ELSE <<high>>)
          ELSE IF FromBig(FALSE, low) = x THEN <<low>>
               ELSE IF FromBig(FALSE, high) = x THEN <<high>> ELSE <<>> :
            low \in { SubSeq(big, 1, n) \o Zeros(Len(big) - n) },
            high \in { BigAdd(SubSeq(big, 1, n) \o Zeros(Len(big) - n),
                              <<1>> \o Zeros(Len(big) - n)) } } : TRUE

RECURSIVE ShortestFrom(_, _, _)
ShortestFrom(x, big, n) ==
    IF n >= Len(big) THEN big
    ELSE CHOOSE r \in { IF found # <<>> THEN found[1] ELSE ShortestFrom(x, big, n + 1) :
                           found \in { ShortestOf(x, big, n) } } : TRUE

(* the digits Number::toString writes for a positive number of 2^53 or     *)
(* more: the fewest digits, followed by zeros, that give a number whose    *)
(* nearest double is x                                                     *)
ShortestDigits(x) ==
    CHOOSE r \in { ShortestFrom(x, big, 1) : big \in { Magnitude(x) } } : TRUE

(* these digits as written: all of them for a number below 10^21, and      *)
(* otherwise the first, the others up to the last that is not 0 after a    *)
(* point, e+ and the exponent                                              *)
FormatDigits(d) ==
    IF Len(d) <= 21 THEN DigitChars(d)
    ELSE <<DigitChar(d[1])>>
         \o (IF Len(StripTrailingZeros(d)) > 1
             THEN <<".">> \o DigitChars(SubSeq(StripTrailingZeros(d), 2,
                                               Len(StripTrailingZeros(d))))
             ELSE <<>>)
         \o <<"e", "+">> \o ToDigits(Len(d) - 1)

(* the digits of the part lo after those of hi: eight, with leading zeros *)
PadDigits(d) ==
    SubSeq(<<"0", "0", "0", "0", "0", "0", "0", "0">>, 1, BaseDigits - Len(d)) \o d

MagnitudeDigits(hi, lo) ==
    IF hi = 0 THEN ToDigits(lo) ELSE ToDigits(hi) \o PadDigits(ToDigits(lo))

(* the characters Number.prototype.toString writes for a number *)
NumberToDigits(x) ==
    CASE x.kind = "NaN" -> <<"N", "a", "N">>
      [] x.kind = "null" -> <<"n", "u", "l", "l">>
      [] x.kind = "Infinity" ->
            (IF x.hi < 0 THEN <<"-">> ELSE <<>>) \o <<"I", "n", "f", "i", "n", "i", "t", "y">>
      [] x.kind = "finite" ->
            (IF Sign(x) < 0 THEN <<"-">> ELSE <<>>)
            \o (IF x.exp = 0 THEN MagnitudeDigits(Abs(x.hi), Abs(x.lo))
                ELSE FormatDigits(ShortestDigits(Double(Abs(x.hi), Abs(x.lo), x.exp))))

(* the characters JSON.stringify writes for a number or null: null for     *)
(* what is not a finite number                                             *)
StringifyNumber(x) ==
    IF x.kind = "finite" THEN NumberToDigits(x) ELSE <<"n", "u", "l", "l">>

StringifyRange(r) ==
    IF IsSome(r.selectedText)
    THEN [startLine |-> StringifyNumber(r.startLine), startCharacter |-> StringifyNumber(r.startCharacter),
          endLine |-> StringifyNumber(r.endLine), endCharacter |-> StringifyNumber(r.endCharacter),
          selectedText |-> Escape(Get(r.selectedText))]
    ELSE [startLine |-> StringifyNumber(r.startLine), startCharacter |-> StringifyNumber(r.startCharacter),
          endLine |-> StringifyNumber(r.endLine), endCharacter |-> StringifyNumber(r.endCharacter)]

StringifyCommentNullTimestamp(c) ==
    [id |-> Escape(c.id), text |-> Escape(c.text),
     timestamp |-> IF IsSome(c.timestamp) THEN StringifyNumber(Get(c.timestamp))
                   ELSE <<"n", "u", "l", "l">>,
     range |-> StringifyRange(c.range)]

(* JSON.stringify of a Comment: members that are undefined are left out *)
StringifyComment(c) ==
    IF IsSome(c.timestamp)
    THEN [id |-> Escape(c.id), text |-> Escape(c.text),
          timestamp |-> StringifyNumber(Get(c.timestamp)),
          range |-> StringifyRange(c.range)]
    ELSE [id |-> Escape(c.id), text |-> Escape(c.text), range |-> StringifyRange(c.range)]

(* JSON.stringify(commentData, null, 2) as written by saveComments: the     *)
(* keys are written in the order of the store                               *)
Stringify(data, keys) ==
    [kind |-> "json",
     data |-> [f \in DOMAIN data |->
                 [type |-> "array",
                  items |-> [i \in 1..Len(data[f]) |-> StringifyComment(data[f][i])]]],
     order |-> keys]

(* the id of a comment that a comments file of an earlier session has *)
IdString(n) ==
    CASE n = 1 -> <<"1", "7", "1", "a">>
      [] n = 2 -> <<"1", "7", "2", "b">>
      [] n = 3 -> <<"1", "7", "3", "c">>
      [] n = 4 -> <<"1", "7", "4", "d">>
      [] n = 5 -> <<"1", "7", "5", "e">>
      [] n = 6 -> <<"1", "7", "0", "b", "j", "q", "e", "t", "g", "s">>
      [] OTHER -> <<"1", "7">> \o ToDigits(n)

(* the file {"/a.ts": [a comment saved by an earlier session], "/b.ts": null} *)
DiskPartial ==
    [kind |-> "json",
     data |-> [f \in {FileA, FileB} |->
                 IF f = FileA
                 THEN [type |-> "array",
                       items |-> <<StringifyComment(
                                     [id |-> IdString(1), text |-> <<"x">>,
                                      timestamp |-> Some(Num(1)),
                                      range |-> NewCommentRange(Num(0), Num(0), Num(0),
                                                                Num(2), None)])>>]
                 ELSE [type |-> "null", items |-> <<>>]],
     order |-> <<FileA, FileB>>]

(* the file {"/b.ts": null, "/a.ts": [the same comment]} *)
DiskPartialNullFirst == [DiskPartial EXCEPT !.order = <<FileB, FileA>>]

(* the file {"/a.ts": [the same comment], "10": [], "9": []}, two of whose   *)
(* keys are array indices                                                   *)
DiskIndexKeys ==
    [kind |-> "json",
     data |-> [f \in {FileA, <<"1", "0">>, <<"9">>} |->
                 IF f = FileA THEN DiskPartial.data[FileA]
                 ELSE [type |-> "array", items |-> <<>>]],
     order |-> <<FileA, <<"1", "0">>, <<"9">>>>]

(* the hexadecimal digits a string starts with *)
HexPrefix(s) ==
    Prefix(s, {"0", "1", "2", "3", "4", "5", "6", "7", "8", "9",
               "a", "b", "c", "d", "e", "f", "A", "B", "C", "D", "E", "F"})

(* the hexadecimal digits read at a time *)
HexChunk == 6

RECURSIVE HexInt(_, _)
(* the integer that up to six hexadecimal digits are *)
HexInt(s, acc) == IF s = <<>> THEN acc ELSE HexInt(Tail(s), acc * 16 + HexValue(Head(s)))

RECURSIVE HexToBig(_, _)
(* the number that hexadecimal digits are, after those of big *)
HexToBig(s, big) ==
    IF s = <<>> THEN big
    ELSE CHOOSE r \in { HexToBig(SubSeq(s, Min(Len(s), HexChunk) + 1, Len(s)), b) :
                           b \in { BigTimesPlus(big, 16 ^ Min(Len(s), HexChunk),
                                                HexInt(SubSeq(s, 1, Min(Len(s), HexChunk)), 0)) } } : TRUE

(* parseInt(string) without radix: white space at the start is skipped, a  *)
(* sign is read, 0x or 0X makes the radix 16, and the digits of the radix  *)
(* that follow are the number, whatever comes after them; NaN when there   *)
(* is no digit.  The result is the double nearest to the number.           *)
parseInt(s) ==
    LET trimmed == TrimStart(s)
        negative == trimmed # <<>> /\ Head(trimmed) = "-"
        unsigned == IF trimmed # <<>> /\ Head(trimmed) \in {"+", "-"}
                    THEN Tail(trimmed) ELSE trimmed
        hex == Len(unsigned) >= 2 /\ unsigned[1] = "0" /\ unsigned[2] \in {"x", "X"}
        digits == IF hex THEN HexPrefix(SubSeq(unsigned, 3, Len(unsigned)))
                  ELSE DigitsPrefix(unsigned)
    IN  IF digits = <<>> THEN NaN
        ELSE IF hex THEN FromBig(negative, StripZeros(HexToBig(digits, <<>>)))
             ELSE FromBig(negative, StripZeros(DigitValues(digits)))

(* the range JSON.parse gives for a JSON object; a member that is absent   *)
(* reads as undefined                                                      *)
ParseRange(o) ==
    NewCommentRange(DigitsToNumber(o.startLine), DigitsToNumber(o.startCharacter),
                    DigitsToNumber(o.endLine), DigitsToNumber(o.endCharacter),
                    IF "selectedText" \in DOMAIN o THEN Some(Unescape(o.selectedText))
                    ELSE None)

(* the Comment an element of a new-format array is used as (1168) *)
ParseComment(o) ==
    [id |-> Unescape(o.id), text |-> Unescape(o.text),
     timestamp |-> IF "timestamp" \in DOMAIN o THEN Some(DigitsToNumber(o.timestamp))
                   ELSE None,
     range |-> ParseRange(o.range)]

ParseComments(items) == [i \in 1..Len(items) |-> ParseComment(items[i])]

(* the Comment built for one entry of an old-format object (1175-1187) *)
migratedComment(id, lineNumberStr, commentText) ==
    LET lineNumber == Minus(parseInt(lineNumberStr), Num(1))
    IN  [id |-> id, text |-> commentText, timestamp |-> None,
         range |-> NewCommentRange(lineNumber, Num(0), lineNumber, MAX_SAFE_INTEGER, None)]

(* the array built from an old-format object (1172-1189), one comment for   *)
(* each of its entries; ids are what the calls of generateCommentId return  *)
migrateOld(items, ids) ==
    [i \in 1..Len(items) |->
        migratedComment(ids[i], ObjectEntries(items)[i].lineNumberStr,
                        Unescape(ObjectEntries(items)[i].commentText))]

RECURSIVE loadEntriesRenumbering(_, _, _, _, _, _)
loadEntriesRenumbering(file, k, data, keys, ids, used) ==
    IF k > Len(file.order) THEN [data |-> data, keys |-> keys, used |-> used]
    ELSE LET fileName == OwnPropertyKeys(file.order)[k]
             fileComments == file.data[fileName]
         IN  CASE fileComments.type = "array" ->
                    loadEntriesRenumbering(file, k + 1,
                        SetKey(data, fileName,
                               [i \in 1..Len(fileComments.items) |->
                                   [ParseComment(fileComments.items[i])
                                       EXCEPT !.id = ToDigits(i)]]),
                        KeysAssigned(keys, fileName), ids, used)
               [] fileComments.type = "object" ->
                    loadEntriesRenumbering(file, k + 1,
                        SetKey(data, fileName,
                               migrateOld(fileComments.items,
                                          SubSeq(ids, used + 1, Len(ids)))),
                        KeysAssigned(keys, fileName), ids,
                        used + Len(fileComments.items))
               [] fileComments.type = "null" ->
                    [data |-> SetKey(data, fileName, <<>>),
                     keys |-> KeysAssigned(keys, fileName), used |-> used]

RECURSIVE loadEntries(_, _, _, _, _, _)
(* the for loop of loadComments (1165-1191) from the k-th entry of the      *)
(* parsed object on; ids are what the calls of generateCommentId return,    *)
(* in order, and used is the number of calls made.  The result is the       *)
(* store, its keys and the number of calls.  For a value that is null the   *)
(* key is set to an empty array (1172), then Object.entries throws and the  *)
(* catch ends the load.  Under the key __proto__ of the parsed object, which *)
(* JSON.parse creates like any other key, the assignments 1168 and 1172     *)
(* leave the store without that key (SetKey); the comments migrated under   *)
(* it are pushed onto the prototype (1178), each with a generated id.       *)
loadEntries(file, k, data, keys, ids, used) ==
    IF k > Len(file.order) THEN [data |-> data, keys |-> keys, used |-> used]
    ELSE LET fileName == OwnPropertyKeys(file.order)[k]
             fileComments == file.data[fileName]
         IN  CASE fileComments.type = "array" ->
                    loadEntries(file, k + 1,
                        SetKey(data, fileName, ParseComments(fileComments.items)),
                        KeysAssigned(keys, fileName), ids, used)
               [] fileComments.type = "object" ->
                    loadEntries(file, k + 1,
                        SetKey(data, fileName,
                               migrateOld(fileComments.items,
                                          SubSeq(ids, used + 1, Len(ids)))),
                        KeysAssigned(keys, fileName), ids,
                        used + Len(fileComments.items))
               [] fileComments.type = "null" ->
                    [data |-> SetKey(data, fileName, <<>>),
                     keys |-> KeysAssigned(keys, fileName), used |-> used]

(* the strings of a JSON object of a new-format array *)
StringsOf(o) ==
    {o.id, o.text}
    \cup (IF "selectedText" \in DOMAIN o.range THEN {o.range.selectedText} ELSE {})

(* JSON.parse (1162) returns: the file is not marked malformed and every    *)
(* string of it is one JSON.parse accepts                                   *)
Parses(file) ==
    /\ file.kind = "json"
    /\ \A f \in DOMAIN file.data : \A i \in 1..Len(file.data[f].items) :
          IF file.data[f].type = "array"
          THEN \A str \in StringsOf(file.data[f].items[i]) : IsJSONString(str)
          ELSE IsJSONString(file.data[f].items[i].commentText)

(* loadComments: nothing happens when the file is missing or does not parse *)
loadComments(data, keys, file, ids) ==
    IF Parses(file) THEN loadEntries(file, 1, data, keys, ids, 0)
    ELSE [data |-> data, keys |-> keys, used |-> 0]

RECURSIVE idsNeededFrom(_, _)
idsNeededFrom(file, k) ==
    IF k > Len(file.order) THEN 0
    ELSE LET fileComments == file.data[OwnPropertyKeys(file.order)[k]]
         IN  CASE fileComments.type = "array" -> idsNeededFrom(file, k + 1)
               [] fileComments.type = "object" ->
                    Len(fileComments.items) + idsNeededFrom(file, k + 1)
               [] fileComments.type = "null" -> 0

(* the number of calls of generateCommentId in one load of this file: one   *)
(* for each old-format entry read before the load ends                     *)
idsNeeded(file) == IF Parses(file) THEN idsNeededFrom(file, 1) ELSE 0

(* what becomes of a call of fs.writeFileSync (1225): the text is written;  *)
(* or the call throws before the file is opened and the file is as before;  *)
(* or it throws after the file was opened, which empties it, and before all *)
(* of the text is written                                                   *)
WriteOutcomes == {"written", "refused", "truncated"}

(* the file after saveComments; no proper prefix of the text of an object   *)
(* is a JSON text                                                           *)
saveComments(data, keys, file, write) ==
    CASE write = "written" -> Stringify(data, keys)
      [] write = "refused" -> file
      [] write = "truncated" -> DiskMalformed

----------------------------------------------------------------------------
(* The sidebar: createSidebarHTML (1587-1634) puts all comments of the     *)
(* store into one sequence, file by file in the order of Object.entries.    *)
(* An element is [fileName, comment].                                       *)

(* charCodeAt(0) of the characters of ids and file names *)
CharCode(ch) ==
    CASE ch = "/" -> 47 [] ch = "." -> 46 [] ch = "_" -> 95 [] ch = "0" -> 48
      [] ch = "1" -> 49 [] ch = "2" -> 50 [] ch = "3" -> 51 [] ch = "4" -> 52
      [] ch = "5" -> 53 [] ch = "6" -> 54 [] ch = "7" -> 55 [] ch = "8" -> 56
      [] ch = "9" -> 57 [] ch = "a" -> 97 [] ch = "b" -> 98 [] ch = "c" -> 99
      [] ch = "d" -> 100 [] ch = "e" -> 101 [] ch = "f" -> 102 [] ch = "g" -> 103
      [] ch = "h" -> 104 [] ch = "i" -> 105 [] ch = "j" -> 106 [] ch = "k" -> 107
      [] ch = "l" -> 108 [] ch = "m" -> 109 [] ch = "n" -> 110 [] ch = "o" -> 111
      [] ch = "p" -> 112 [] ch = "q" -> 113 [] ch = "r" -> 114 [] ch = "s" -> 115
      [] ch = "t" -> 116 [] ch = "u" -> 117 [] ch = "v" -> 118 [] ch = "w" -> 119
      [] ch = "x" -> 120 [] ch = "y" -> 121 [] ch = "z" -> 122

(* what Math.random().toString(36).substr(2, 9) gives in the calls of      *)
(* generateCommentId (1331): i when Math.random returns 0.5, r for 0.75    *)
RandomSuffixes == {<<"i">>, <<"r">>}

(* the suffixes of n calls in a row *)
RandomDraws(n) == [1..n -> RandomSuffixes]

(* what Date.now() returns: a number of milliseconds from 1 to MaxTime *)
Times == { Num(t) : t \in 1..MaxTime }

(* the times read by n calls in a row *)
ClockDraws(n) == [1..n -> Times]

(* generateCommentId (1330-1332): the decimal digits of Date.now(),        *)
(* followed by the suffix drawn                                            *)
generateCommentId(time, random) == NumberToDigits(time) \o random

(* the ids this session can generate *)
GeneratedIds == { generateCommentId(time, random) : time \in Times, random \in RandomSuffixes }

(* the ids that calls in a row return, each with the time and the suffix   *)
(* of its own                                                              *)
generatedIds(clock, randoms) ==
    [i \in 1..Len(randoms) |-> generateCommentId(clock[i], randoms[i])]

(* 32-bit integers: a value is the signed number; its two 16-bit halves    *)
(* are those of its two's complement                                       *)
Half == 65536
Lo16(a) == a % Half
Hi16(a) == (a \div Half) % Half
ToInt32(hi, lo) == IF hi >= 32768 THEN (hi - Half) * Half + lo ELSE hi * Half + lo
MinInt32 == ToInt32(32768, 0)

(* a << 5 *)
ShiftLeft5(a) ==
    LET p == Lo16(a) * 32
    IN  ToInt32((Hi16(a) * 32 + (p \div Half)) % Half, p % Half)

(* the reducer of the hash (1607-1610): a = ((a << 5) - a) + code; a & a *)
hashStep(a, code) ==
    LET shifted == ShiftLeft5(a)
        lo == Lo16(shifted) - Lo16(a) + code
    IN  ToInt32((Hi16(shifted) - Hi16(a) + (lo \div Half)) % Half, lo % Half)

RECURSIVE hashFrom(_, _)
(* reduce over the characters left, from the value a; the value of each     *)
(* step is computed once, as the element of a set                           *)
hashFrom(str, a) ==
    IF str = <<>> THEN a
    ELSE CHOOSE h \in { hashFrom(Tail(str), next) :
                           next \in { hashStep(a, CharCode(Head(str))) } } : TRUE

hashOfLine(item) ==
    hashFrom(item.comment.id \o item.fileName, ToInt(item.comment.range.startLine))

(* (id + fileName).split('').reduce(..., 0) *)
hash(item) == hashFrom(item.comment.id \o item.fileName, 0)

swapIndexInt32(h, n) ==
    IF h = MinInt32 THEN 0 - (((1073741824 % n) * 2) % n)
    ELSE (IF h < 0 THEN 0 - h ELSE h) % n

(* Math.abs(hash) % (i + 1): the absolute value is a double, so that of    *)
(* the smallest 32-bit integer is 2^31                                     *)
swapIndex(h, n) ==
    IF h = MinInt32 THEN ((1073741824 % n) * 2) % n
    ELSE (IF h < 0 THEN 0 - h ELSE h) % n

RECURSIVE allCommentsFrom(_, _, _)
allCommentsFrom(keys, data, k) ==
    IF k > Len(keys) THEN <<>>
    ELSE [i \in 1..Len(data[keys[k]]) |-> [fileName |-> keys[k], comment |-> data[keys[k]][i]]]
         \o allCommentsFrom(keys, data, k + 1)

(* allComments (1588-1595): the comments of each key, in the order of keys *)
allComments(keys, data) == allCommentsFrom(keys, data, 1)

(* item.comment.timestamp as a condition: undefined, null, NaN and 0 are   *)
(* falsy                                                                   *)
TruthyTimestamp(item) ==
    /\ IsSome(item.comment.timestamp)
    /\ Get(item.comment.timestamp).kind \notin {"NaN", "null"}
    /\ Sign(Get(item.comment.timestamp)) # 0

(* Array.prototype.filter *)
timestampedComments(items) == SelectSeq(items, TruthyTimestamp)
NotTruthyTimestamp(item) == ~TruthyTimestamp(item)
nonTimestampedComments(items) == SelectSeq(items, NotTruthyTimestamp)

(* where a stable sort by descending timestamp puts x among sorted items:  *)
(* after the items that are not older                                      *)
InsertSorted(sorted, x) ==
    LET notOlder == { i \in 1..Len(sorted) :
                        ~Less(Get(sorted[i].comment.timestamp), Get(x.comment.timestamp)) }
        n == Cardinality(notOlder)
    IN  SubSeq(sorted, 1, n) \o <<x>> \o SubSeq(sorted, n + 1, Len(sorted))

RECURSIVE sortAscending(_, _)
sortAscending(items, sorted) ==
    IF items = <<>> THEN sorted
    ELSE LET x == Head(items)
             notNewer == { i \in 1..Len(sorted) :
                             LessEq(Get(sorted[i].comment.timestamp),
                                    Get(x.comment.timestamp)) }
             n == Cardinality(notNewer)
         IN  sortAscending(Tail(items),
                           SubSeq(sorted, 1, n) \o <<x>> \o SubSeq(sorted, n + 1, Len(sorted)))

RECURSIVE sortNewestFirst(_, _)
(* sort((a, b) => b.comment.timestamp - a.comment.timestamp) (1602); the    *)
(* sort is stable                                                          *)
sortNewestFirst(items, sorted) ==
    IF items = <<>> THEN sorted
    ELSE sortNewestFirst(Tail(items), InsertSorted(sorted, Head(items)))

Swap(items, i, j) == [items EXCEPT ![i] = items[j], ![j] = items[i]]

RECURSIVE shuffleFrom(_, _)
(* the loop of 1605-1613 from index i (zero-based) down to 1 *)
shuffleFrom(items, i) ==
    IF i < 1 THEN items
    ELSE LET j == swapIndex(hash(items[i + 1]), i + 1)
         IN  shuffleFrom(Swap(items, i + 1, j + 1), i - 1)

shuffle(items) == shuffleFrom(items, Len(items) - 1)

RECURSIVE interleaveTimedOnly(_, _, _, _, _)
interleaveTimedOnly(timed, untimed, tIndex, nIndex, result) ==
    IF tIndex >= Len(timed) THEN result
    ELSE LET addCount == Min(2, Len(untimed) - nIndex)
         IN  interleaveTimedOnly(timed, untimed, tIndex + 1, nIndex + addCount,
                 result \o <<timed[tIndex + 1]>> \o SubSeq(untimed, nIndex + 1, nIndex + addCount))

RECURSIVE interleaveByThree(_, _, _, _, _)
interleaveByThree(timed, untimed, tIndex, nIndex, result) ==
    IF ~(tIndex < Len(timed) \/ nIndex < Len(untimed)) THEN result
    ELSE LET withTimed == IF tIndex < Len(timed)
                          THEN result \o <<timed[tIndex + 1]>> ELSE result
             tNext == IF tIndex < Len(timed) THEN tIndex + 1 ELSE tIndex
             addCount == Min(3, Len(untimed) - nIndex)
         IN  interleaveByThree(timed, untimed, tNext, nIndex + addCount,
                               withTimed \o SubSeq(untimed, nIndex + 1, nIndex + addCount))

RECURSIVE interleave(_, _, _, _, _)
(* the while loop of 1619-1630: one timestamped comment, if any is left,   *)
(* then up to two of the others                                            *)
interleave(timed, untimed, tIndex, nIndex, result) ==
    IF ~(tIndex < Len(timed) \/ nIndex < Len(untimed)) THEN result
    ELSE LET withTimed == IF tIndex < Len(timed)
                          THEN result \o <<timed[tIndex + 1]>> ELSE result
             tNext == IF tIndex < Len(timed) THEN tIndex + 1 ELSE tIndex
             addCount == Min(2, Len(untimed) - nIndex)
         IN  interleave(timed, untimed, tNext, nIndex + addCount,
                        withTimed \o SubSeq(untimed, nIndex + 1, nIndex + addCount))

(* the sequence of comments the sidebar shows (1588-1634) *)
sidebarComments(keys, data) ==
    interleave(sortNewestFirst(timestampedComments(allComments(keys, data)), <<>>),
               shuffle(nonTimestampedComments(allComments(keys, data))), 0, 0, <<>>)

(* the orders the keys of the store can have: each key once, the array      *)
(* indices first                                                            *)
KeyOrders(data) ==
    { keys \in [1..Cardinality(DOMAIN data) -> DOMAIN data] :
        /\ \A i, j \in 1..Cardinality(DOMAIN data) : keys[i] = keys[j] => i = j
        /\ OwnPropertyKeys(keys) = keys }

----------------------------------------------------------------------------
(* Inputs *)

(* the document every file of the editor starts with *)
InitialDocument == << <<"a", "b">>, <<"c">> >>

Position(line, character) == <<Num(line), Num(character)>>

ValidPosition(doc, p) ==
    /\ ~IsNegative(p[1]) /\ Less(p[1], Num(lineCount(doc)))
    /\ ~IsNegative(p[2]) /\ LessEq(p[2], lineLength(doc, p[1]))

(* editor selections tried: a cursor is a selection whose ends are equal *)
SelectionInputs ==
    { [start |-> Position(0, 1), end |-> Position(0, 1)],
      [start |-> Position(0, 0), end |-> Position(0, 2)],
      [start |-> Position(0, 1), end |-> Position(1, 1)] }

(* the selections the editor can have in this document *)
Selections(doc) ==
    { sel \in SelectionInputs : ValidPosition(doc, sel.start) /\ ValidPosition(doc, sel.end) }

(* the range openCommentInput comments on (1395-1402): the whole cursor    *)
(* line for an empty selection, the selection otherwise                    *)
selectionRange(doc, sel) ==
    IF sel.start = sel.end
    THEN [start |-> <<sel.start[1], Num(0)>>,
          end |-> <<sel.start[1], lineLength(doc, sel.start[1])>>]
    ELSE [start |-> sel.start, end |-> sel.end]

(* the text openCommentInput captures: document.getText(selection), or     *)
(* undefined for an empty selection                                        *)
selectionText(doc, sel) ==
    IF sel.start = sel.end THEN None ELSE Some(getText(doc, selectionRange(doc, sel)))

Op(op, fileName, text, outcome) ==
    [op |-> op, fileName |-> fileName, text |-> text, outcome |-> outcome]

(* the same for a handler that was given the id of a comment *)
OpOn(op, fileName, commentId, outcome) ==
    [op |-> op, fileName |-> fileName, text |-> <<>>, outcome |-> outcome, id |-> commentId]

(* the same for a commit that read the clock for the timestamp, and for a   *)
(* load that generated ids                                                  *)
OpAt(op, fileName, text, outcome, time) ==
    [op |-> op, fileName |-> fileName, text |-> text, outcome |-> outcome, time |-> time]

OpLoad(op, outcome, generated) ==
    [op |-> op, fileName |-> <<>>, text |-> <<>>, outcome |-> outcome,
     generated |-> generated]

----------------------------------------------------------------------------
(* Handlers *)

openCommentInputStoring(fileName, sel) ==
    LET doc == docs[fileName]
        range == selectionRange(doc, sel)
        existingComment == findExistingCommentForRange(fileName, range)
    IN  /\ pendingComment' =
              << [fileName |-> fileName,
                  range |-> NewCommentRange(range.start[1], range.start[2],
                                            range.end[1], range.end[2],
                                            selectionText(doc, sel)),
                  existingCommentId |->
                      IF IsSome(existingComment) THEN Some(Get(existingComment).id) ELSE None,
                  existingText |->
                      IF IsSome(existingComment) THEN Some(Get(existingComment).text) ELSE None] >>
        /\ commentData' = SetKey(commentData, fileName, FileComments(commentData, fileName))
        /\ keyOrder' = KeysAfter(keyOrder, commentData', fileName)
        /\ lastOp' = Op("openCommentInput", fileName, <<>>, "opened")
        /\ UNCHANGED <<docs, disk, autoSave, confirmDelete, hideStaleComments, deleteDialogs, idCount>>

(* command local-comments.openCommentInput with an active editor on        *)
(* fileName whose selection is sel                                         *)
openCommentInput(fileName, sel) ==
    LET doc == docs[fileName]
        range == selectionRange(doc, sel)
        existingComment == findExistingCommentForRange(fileName, range)
    IN  /\ pendingComment' =
              << [fileName |-> fileName,
                  range |-> NewCommentRange(range.start[1], range.start[2],
                                            range.end[1], range.end[2],
                                            selectionText(doc, sel)),
                  existingCommentId |->
                      IF IsSome(existingComment) THEN Some(Get(existingComment).id) ELSE None,
                  existingText |->
                      IF IsSome(existingComment) THEN Some(Get(existingComment).text) ELSE None] >>
        /\ lastOp' = Op("openCommentInput", fileName, <<>>, "opened")
        /\ UNCHANGED <<commentData, keyOrder, docs, disk, autoSave, confirmDelete, hideStaleComments,
                       deleteDialogs, idCount>>

(* updateDecorations (1268-1318) throws.  activeEditor is the file of       *)
(* vscode.window.activeTextEditor, if there is one.  For each comment the   *)
(* store has for that file, unless hideStaleComments is on and skips it as  *)
(* not valid (1281), new vscode.Range is built outside any try (1285).      *)
updateDecorationsThrows(data, activeEditor, hideStale) ==
    /\ IsSome(activeEditor)
    /\ \E i \in 1..Len(FileComments(data, Get(activeEditor))) :
          LET comment == data[Get(activeEditor)][i]
          IN  /\ RangeThrows(comment.range)
              /\ ~(hideStale /\ ~isCommentStillValid(comment, docs[Get(activeEditor)]))

(* what savePendingComment did to the store *)
commitOutcome(data, pending, text) ==
    LET found == /\ TruthyString(pending.existingCommentId)
                 /\ pending.fileName \in DOMAIN data
                 /\ IndexOfId(data[pending.fileName], Get(pending.existingCommentId)) # 0
    IN  IF Trim(text) = <<>>
        THEN IF found THEN "removed" ELSE "ignored"
        ELSE IF TruthyString(pending.existingCommentId)
             THEN IF found THEN "updated" ELSE "dropped"
             ELSE "created"

savePendingCommentRollback(text, write, clock, random, activeEditor) ==
    IF pendingComment = <<>>
    THEN /\ lastOp' = Op("savePendingComment", <<>>, text, "noPending")
         /\ UNCHANGED <<commentData, keyOrder, pendingComment, docs, disk, autoSave,
                        confirmDelete, hideStaleComments, deleteDialogs, idCount>>
    ELSE LET pending == pendingComment[1]
             outcome == commitOutcome(commentData, pending, text)
         IN  /\ commentData' = IF autoSave /\ write # "written" THEN commentData
                                ELSE commitPending(commentData, pending, text,
                                                   generateCommentId(clock[1], random),
                                                   clock[2])
             /\ keyOrder' = KeysAfter(keyOrder, commentData', pending.fileName)
             /\ pendingComment' = <<>>
             /\ disk' = IF /\ autoSave
                           /\ ~updateDecorationsThrows(commentData', activeEditor,
                                                       hideStaleComments)
                        THEN saveComments(commentData', keyOrder', disk, write) ELSE disk
             /\ lastOp' = OpAt("savePendingComment", pending.fileName, text, outcome,
                               IF outcome = "created" THEN Some(clock[2]) ELSE None)
             /\ idCount' = IF outcome = "created" THEN Min(idCount + 1, MaxIds) ELSE idCount
             /\ UNCHANGED <<docs, autoSave, confirmDelete, hideStaleComments, deleteDialogs>>

(* webview message saveComment: savePendingComment(text).  When the handler *)
(* creates a comment, clock[1] is the time generateCommentId reads (1456),  *)
(* random the suffix it draws, and clock[2] the time read for the           *)
(* timestamp (1458).  After the change of the store and of pendingComment   *)
(* the handler calls updateDecorations (1472): when that throws, the        *)
(* handler ends there and saveComments (1474) is not called.                *)
savePendingComment(text, write, clock, random, activeEditor) ==
    IF pendingComment = <<>>
    THEN /\ lastOp' = Op("savePendingComment", <<>>, text, "noPending")
         /\ UNCHANGED <<commentData, keyOrder, pendingComment, docs, disk, autoSave,
                        confirmDelete, hideStaleComments, deleteDialogs, idCount>>
    ELSE LET pending == pendingComment[1]
             outcome == commitOutcome(commentData, pending, text)
         IN  /\ commentData' = commitPending(commentData, pending, text,
                                             generateCommentId(clock[1], random), clock[2])
             /\ keyOrder' = KeysAfter(keyOrder, commentData', pending.fileName)
             /\ pendingComment' = <<>>
             /\ disk' = IF /\ autoSave
                           /\ ~updateDecorationsThrows(commentData', activeEditor,
                                                       hideStaleComments)
                        THEN saveComments(commentData', keyOrder', disk, write) ELSE disk
             /\ lastOp' = OpAt("savePendingComment", pending.fileName, text, outcome,
                               IF outcome = "created" THEN Some(clock[2]) ELSE None)
             /\ idCount' = IF outcome = "created" THEN Min(idCount + 1, MaxIds) ELSE idCount
             /\ UNCHANGED <<docs, autoSave, confirmDelete, hideStaleComments, deleteDialogs>>

(* webview message cancelComment *)
cancelPendingComment ==
    /\ pendingComment' = <<>>
    /\ lastOp' = Op("cancelPendingComment", <<>>, <<>>, "cancelled")
    /\ UNCHANGED <<commentData, keyOrder, docs, disk, autoSave, confirmDelete, hideStaleComments,
                   deleteDialogs, idCount>>

(* webview message edit, tree command editComment *)
editCommentById(commentId, fileName) ==
    LET index == IF fileName \in DOMAIN commentData
                 THEN IndexOfId(commentData[fileName], commentId) ELSE 0
    IN  IF index = 0
        THEN /\ lastOp' = Op("editCommentById", fileName, <<>>, "notFound")
             /\ UNCHANGED <<commentData, keyOrder, pendingComment, docs, disk, autoSave,
                            confirmDelete, hideStaleComments, deleteDialogs, idCount>>
        ELSE LET comment == commentData[fileName][index]
             IN  /\ pendingComment' =
                       << [fileName |-> fileName,
                           range |-> NewCommentRange(comment.range.startLine,
                                                     comment.range.startCharacter,
                                                     comment.range.endLine,
                                                     comment.range.endCharacter,
                                                     comment.range.selectedText),
                           existingCommentId |-> Some(comment.id),
                           existingText |-> Some(comment.text)] >>
                 /\ lastOp' = Op("editCommentById", fileName, <<>>, "opened")
                 /\ UNCHANGED <<commentData, keyOrder, docs, disk, autoSave, confirmDelete, hideStaleComments,
                                deleteDialogs, idCount>>

(* deleteCommentById after the confirmation (2314-2331); the autoSave read  *)
(* is the one of the configuration object fetched when the call started.   *)
(* After the removal the handler calls updateDecorations (2323): when that  *)
(* throws, the handler ends there and saveComments (2326) is not called.    *)
removeComment(commentId, fileName, autoSaveRead, write, activeEditor) ==
    LET found == /\ fileName \in DOMAIN commentData
                 /\ IndexOfId(commentData[fileName], commentId) # 0
    IN  /\ commentData' = spliceById(commentData, fileName, commentId)
        /\ keyOrder' = KeysAfter(keyOrder, commentData', fileName)
        /\ disk' = IF /\ found
                      /\ ~updateDecorationsThrows(commentData', activeEditor,
                                                  hideStaleComments)
                      /\ autoSaveRead
                   THEN saveComments(commentData', keyOrder', disk, write) ELSE disk
        /\ lastOp' = OpOn("deleteCommentById", fileName, commentId,
                          IF found THEN "removed" ELSE "notFound")

(* webview message delete, tree command deleteComment: up to the await of  *)
(* the confirmation, or to the end when confirmDelete is off               *)
deleteCommentById(commentId, fileName, write, activeEditor) ==
    IF confirmDelete
    THEN /\ Cardinality(deleteDialogs) < MaxDialogs
         /\ deleteDialogs' = deleteDialogs \cup
               {[commentId |-> commentId, fileName |-> fileName, autoSave |-> autoSave]}
         /\ lastOp' = OpOn("deleteCommentById", fileName, commentId, "asking")
         /\ UNCHANGED <<commentData, keyOrder, pendingComment, docs, disk, autoSave,
                        confirmDelete, hideStaleComments, idCount>>
    ELSE /\ removeComment(commentId, fileName, autoSave, write, activeEditor)
         /\ UNCHANGED <<pendingComment, docs, autoSave, confirmDelete, hideStaleComments, deleteDialogs, idCount>>

(* the user answers a confirmation: 'Delete', or anything else; the active *)
(* editor is the one of that moment                                        *)
answerDeleteDialog(dialog, answer, write, activeEditor) ==
    /\ dialog \in deleteDialogs
    /\ deleteDialogs' = deleteDialogs \ {dialog}
    /\ IF answer = "Delete"
       THEN removeComment(dialog.commentId, dialog.fileName, dialog.autoSave, write,
                          activeEditor)
       ELSE /\ lastOp' = OpOn("deleteCommentById", dialog.fileName, dialog.commentId,
                              "declined")
            /\ UNCHANGED <<commentData, keyOrder, disk, idCount>>
    /\ UNCHANGED <<pendingComment, docs, autoSave, confirmDelete, hideStaleComments, idCount>>

(* all orders of the comments without timestamp *)
ItemOrders(items) ==
    { [i \in 1..Len(items) |-> items[f[i]]] :
        f \in { g \in [1..Len(items) -> 1..Len(items)] :
                   \A i, j \in 1..Len(items) : g[i] = g[j] => i = j } }

OpBuilt(keys, result) ==
    [op |-> "createSidebarHTML", fileName |-> <<>>, text |-> <<>>, outcome |-> "built",
     keys |-> keys, result |-> result]

(* the sidebar is built: createSidebarHTML reads the store into arrays of  *)
(* its own, which it filters, sorts and swaps                               *)
createSidebarHTML ==
    /\ lastOp' = OpBuilt(keyOrder, sidebarComments(keyOrder, commentData))
    /\ UNCHANGED <<commentData, keyOrder, pendingComment, docs, disk, autoSave, confirmDelete, hideStaleComments,
                   deleteDialogs, idCount>>

(* command local-comments.saveComments *)
saveCommand(write) ==
    /\ disk' = saveComments(commentData, keyOrder, disk, write)
    /\ lastOp' = Op("saveComments", <<>>, <<>>, IF write = "written" THEN "saved" ELSE "failed")
    /\ UNCHANGED <<commentData, keyOrder, pendingComment, docs, autoSave, confirmDelete, hideStaleComments,
                   deleteDialogs, idCount>>

(* a localComments setting changed; file is the comments file found at the  *)
(* location now configured (the same file unless the location changed):     *)
(* onConfigurationChanged reloads it.  clock and randoms are what Date.now  *)
(* and Math.random return to the calls of generateCommentId of the load     *)
(* (1177), one time and one suffix for each call.  The call of              *)
(* updateDecorations that follows the load (2358) changes nothing of the    *)
(* state, whether it throws or not.                                         *)
onConfigurationChanged(newAutoSave, newConfirmDelete, newHideStaleComments, file, clock, randoms) ==
    LET generated == generatedIds(clock, randoms)
        loaded == loadComments(commentData, keyOrder, file, generated)
    IN  /\ Len(clock) = idsNeeded(file)
        /\ Len(randoms) = idsNeeded(file)
        /\ autoSave' = newAutoSave
        /\ confirmDelete' = newConfirmDelete
        /\ hideStaleComments' = newHideStaleComments
        /\ disk' = file
        /\ commentData' = loaded.data
        /\ keyOrder' = loaded.keys
        /\ lastOp' = OpLoad("onConfigurationChanged",
                            IF file = disk THEN "loaded" ELSE "moved",
                            SubSeq(generated, 1, loaded.used))
        /\ idCount' = Min(idCount + loaded.used, MaxIds)
        /\ UNCHANGED <<pendingComment, docs, deleteDialogs>>

----------------------------------------------------------------------------
(* Edits of a document in the editor (onDidChangeTextDocument): the        *)
(* extension only redraws its decorations, the store is not touched        *)

MaxLines == 3
MaxLineLen == 3

(* what a line's content is replaced with *)
ReplacementLines == { <<"b", "b">> }

ReplaceLineAt(doc, line, text) == [doc EXCEPT ![line + 1] = text]

InsertLineAt(doc, line, text) ==
    SubSeq(doc, 1, line) \o <<text>> \o SubSeq(doc, line + 1, Len(doc))

Lines(doc) == 0..(lineCount(doc) - 1)

DocChanged(op, fileName, newDoc) ==
    /\ docs' = [docs EXCEPT ![fileName] = newDoc]
    /\ lastOp' = Op("onDidChangeTextDocument", fileName, <<>>, "")
    /\ UNCHANGED <<commentData, keyOrder, pendingComment, disk, autoSave, confirmDelete, hideStaleComments,
                   deleteDialogs, idCount>>

(* the content of a line is replaced by other text of the same length *)
replaceLine(fileName, line, text) ==
    /\ LineText(docs[fileName], line) # text
    /\ Len(LineText(docs[fileName], line)) = Len(text)
    /\ DocChanged("replaceLine", fileName, ReplaceLineAt(docs[fileName], line, text))

(* an empty line is inserted before the given line *)
insertBlankLine(fileName, line) ==
    /\ lineCount(docs[fileName]) < MaxLines
    /\ DocChanged("insertBlankLine", fileName, InsertLineAt(docs[fileName], line, <<>>))

(* an empty line is removed *)
removeBlankLine(fileName, line) ==
    /\ lineCount(docs[fileName]) > 1
    /\ LineText(docs[fileName], line) = <<>>
    /\ DocChanged("removeBlankLine", fileName, RemoveAt(docs[fileName], line + 1))

(* a space is added at the end of a line *)
addTrailingSpace(fileName, line) ==
    /\ Len(LineText(docs[fileName], line)) < MaxLineLen
    /\ DocChanged("addTrailingSpace", fileName,
                  ReplaceLineAt(docs[fileName], line,
                                Append(LineText(docs[fileName], line), " ")))

(* a space is removed from the end of a line *)
removeTrailingSpace(fileName, line) ==
    LET text == LineText(docs[fileName], line)
    IN  /\ text # <<>>
        /\ text[Len(text)] = " "
        /\ DocChanged("removeTrailingSpace", fileName,
                      ReplaceLineAt(docs[fileName], line, SubSeq(text, 1, Len(text) - 1)))

(* a line that is not empty is deleted *)
deleteLine(fileName, line) ==
    /\ lineCount(docs[fileName]) > 1
    /\ Trim(LineText(docs[fileName], line)) # <<>>
    /\ DocChanged("deleteLine", fileName, RemoveAt(docs[fileName], line + 1))

----------------------------------------------------------------------------
(* The extension: module initialisation runs loadComments once (1236).     *)
(* The sessions start where the initialisation has ended: its call of      *)
(* updateDecorations (1320) has not thrown.                                *)

InitialDisks == {DiskMissing, DiskLegacy}

(* the ids of the comments a file holds in the new format *)
FileIds(file) ==
    UNION { { Unescape(file.data[f].items[i].id) : i \in 1..Len(file.data[f].items) } :
            f \in { g \in DOMAIN file.data : file.data[g].type = "array" } }

(* what the clock and Math.random can give to the calls of                 *)
(* generateCommentId of one load of this file: a time and a suffix for     *)
(* each call                                                               *)
LoadDraws(file) ==
    { [clock |-> clock, randoms |-> randoms] :
        clock \in ClockDraws(idsNeeded(file)), randoms \in RandomDraws(idsNeeded(file)) }

(* the same when all calls of the session are made within one millisecond *)
SameTimeLoadDraws(file) ==
    { [clock |-> [i \in 1..idsNeeded(file) |-> Num(1)], randoms |-> randoms] :
        randoms \in RandomDraws(idsNeeded(file)) }

RECURSIVE CountFrom(_, _)
CountFrom(data, files) ==
    IF files = {} THEN 0
    ELSE LET f == CHOOSE g \in files : TRUE
         IN  Len(data[f]) + CountFrom(data, files \ {f})

(* the number of comments of the store *)
CommentCount(data) == CountFrom(data, DOMAIN data)

InitWith(file, a, c, h, draws) ==
    \E draw \in draws :
        LET generated == generatedIds(draw.clock, draw.randoms)
            loaded == loadComments(EmptyObject, <<>>, file, generated)
        IN  /\ disk = file
            /\ commentData = loaded.data
            /\ keyOrder = loaded.keys
            /\ pendingComment = <<>>
            /\ docs = [f \in Files |-> InitialDocument]
            /\ autoSave = a
            /\ confirmDelete = c
            /\ hideStaleComments = h
            /\ deleteDialogs = {}
            /\ idCount = Min(CommentCount(loaded.data), MaxIds)
            /\ lastOp = OpLoad("activate", "loaded", SubSeq(generated, 1, loaded.used))

(* what the clock and Math.random can give to one call of                  *)
(* savePendingComment: the two times read and the suffix                   *)
CommitDraws ==
    { [clock |-> <<t1, t2>>, random |-> random] :
        t1 \in Times, t2 \in Times, random \in RandomSuffixes }

(* the same when all calls of the session are made within one millisecond *)
SameTimeDraws == { draw \in CommitDraws : draw.clock = <<Num(1), Num(1)>> }

(* the draws tried for a call of savePendingComment with this text: all of *)
(* the given ones when the handler creates a comment (1456-1458), which is *)
(* tried while the session has had fewer than MaxIds ids; one when it does *)
(* not create and so draws nothing                                         *)
commitDraws(text, draws) ==
    IF /\ pendingComment # <<>>
       /\ commitOutcome(commentData, pendingComment[1], text) = "created"
    THEN (IF idCount < MaxIds THEN draws ELSE {})
    ELSE {[clock |-> <<Num(1), Num(1)>>, random |-> <<>>]}

(* the draws tried for a reload of this file: those of its calls of        *)
(* generateCommentId, tried while the ids they add stay within MaxIds      *)
reloadDraws(file) ==
    IF idCount + idsNeeded(file) <= MaxIds THEN SameTimeLoadDraws(file) ELSE {}

(* the ids of the comments the store has for a file: the sidebar lists     *)
(* these comments                                                          *)
ListedIds(f) ==
    { FileComments(commentData, f)[i].id : i \in 1..Len(FileComments(commentData, f)) }

(* the ids a message of the sidebar can name: the sidebar is rebuilt by the *)
(* handlers of the editor and by a delete (1419, 1476, 1481, 2288, 2329)    *)
(* and not by a reload (2351-2366), so it may list a comment the store has  *)
(* no more                                                                  *)
MessageIds == GeneratedIds \cup {IdString(1)}

(* the editor that is active when a pending comment is committed: the one  *)
(* of its file; none when nothing is pending                               *)
PendingEditor ==
    IF pendingComment = <<>> THEN None ELSE Some(pendingComment[1].fileName)

(* An editing session: the user opens the editor, commits, cancels, edits  *)
(* and deletes from the sidebar; the comments file is written by autoSave. *)
(* In this session hideStaleComments is on, as by default, and the active  *)
(* editor is the one of the file that the message of the sidebar is about; *)
(* so it is in the other sessions, unless said otherwise.                  *)
Init == \E file \in InitialDisks : InitWith(file, TRUE, TRUE, TRUE, SameTimeLoadDraws(file))

Next ==
    \/ \E f \in Files : \E sel \in Selections(docs[f]) : openCommentInput(f, sel)
    \/ \E text \in Texts : \E draw \in commitDraws(text, SameTimeDraws) :
          savePendingComment(text, "written", draw.clock, draw.random, PendingEditor)
    \/ cancelPendingComment
    \/ \E f \in Files : \E id \in ListedIds(f) : editCommentById(id, f)
    \/ \E f \in Files : \E id \in ListedIds(f) : deleteCommentById(id, f, "written", Some(f))
    \/ \E dialog \in deleteDialogs, answer \in {"Delete", "Cancel"} :
          answerDeleteDialog(dialog, answer, "written", Some(dialog.fileName))

Spec == Init /\ [][Next]_vars

(* A session in which the document of one file is edited while comments on *)
(* it are created: autoSave is off, so the comments file is never written. *)
DocFile == FileA

InitDoc == InitWith(DiskMissing, FALSE, FALSE, TRUE, LoadDraws(DiskMissing))

NextDoc ==
    \/ \E sel \in Selections(docs[DocFile]) :
          commentData = EmptyObject /\ openCommentInput(DocFile, sel)
    \/ \E draw \in commitDraws(<<"x">>, CommitDraws) :
          pendingComment # <<>>
          /\ savePendingComment(<<"x">>, "written", draw.clock, draw.random, PendingEditor)
    \/ \E line \in Lines(docs[DocFile]), text \in ReplacementLines :
          replaceLine(DocFile, line, text)
    \/ \E line \in Lines(docs[DocFile]) : insertBlankLine(DocFile, line)
    \/ \E line \in Lines(docs[DocFile]) : removeBlankLine(DocFile, line)
    \/ \E line \in Lines(docs[DocFile]) : addTrailingSpace(DocFile, line)
    \/ \E line \in Lines(docs[DocFile]) : removeTrailingSpace(DocFile, line)
    \/ \E line \in Lines(docs[DocFile]) : deleteLine(DocFile, line)

SpecDoc == InitDoc /\ [][NextDoc]_vars

(* A session in which line comments are put on the lines of one file, with *)
(* the cursor, while its document is edited; the file may have a migrated  *)
(* comment.                                                                *)
LineFile == FileB

InitLine == \E file \in InitialDisks : InitWith(file, FALSE, FALSE, TRUE, LoadDraws(file))

(* the editor's cursor at the start of a line of the document *)
LineCursors(doc) ==
    { [start |-> Position(line, 0), end |-> Position(line, 0)] : line \in Lines(doc) }

NextLine ==
    \/ \E sel \in LineCursors(docs[LineFile]) :
          pendingComment = <<>> /\ openCommentInput(LineFile, sel)
    \/ \E draw \in commitDraws(<<"x">>, CommitDraws) :
          pendingComment # <<>>
          /\ savePendingComment(<<"x">>, "written", draw.clock, draw.random, PendingEditor)
    \/ \E line \in Lines(docs[LineFile]), text \in ReplacementLines :
          replaceLine(LineFile, line, text)
    \/ \E line \in Lines(docs[LineFile]) : insertBlankLine(LineFile, line)
    \/ \E line \in Lines(docs[LineFile]) : deleteLine(LineFile, line)

SpecLine == InitLine /\ [][NextLine]_vars

(* A session with the persistence events: writes of the comments file that *)
(* fail, the save command, and configuration changes, which reload the     *)
(* comments file of the configured location; that location is the same, or *)
(* a new one where no comments file exists.  The comments file found at    *)
(* start is missing, malformed, in the old format, or has a null entry,    *)
(* before or after the entry of another file, or has keys that are array   *)
(* indices.  The settings autoSave (on) and confirmDelete (off) keep their *)
(* values.                                                                 *)
LoadDisks ==
    {DiskMissing, DiskMalformed, DiskLegacy, DiskLegacyTwo, DiskLegacyBoth,
     DiskPartial, DiskPartialNullFirst, DiskIndexKeys}

InitPersist == \E file \in LoadDisks : InitWith(file, TRUE, FALSE, TRUE, SameTimeLoadDraws(file))

PersistFile == FileA

(* the cursor on the first line, and a selection over two lines *)
PersistSelections ==
    { sel \in Selections(docs[PersistFile]) : sel.start = sel.end \/ sel.start[1] # sel.end[1] }

(* a blank text, and a text that ends with a tab *)
PersistTexts == {<<"\t", " ">>, <<"y", "\t">>}

(* the delete messages of the sidebar name a comment that the store or the *)
(* comments file has                                                       *)
Known(id) == id \in StoredIds(commentData) \cup FileIds(disk)

NextPersist ==
    \/ \E sel \in PersistSelections : openCommentInput(PersistFile, sel)
    \/ \E text \in PersistTexts, write \in WriteOutcomes :
          \E draw \in commitDraws(text, SameTimeDraws) :
              pendingComment # <<>>
              /\ savePendingComment(text, write, draw.clock, draw.random, PendingEditor)
    \/ \E f \in Files : \E id \in ListedIds(f) : editCommentById(id, f)
    \/ \E id \in MessageIds, f \in Files, write \in WriteOutcomes :
          Known(id) /\ deleteCommentById(id, f, write, Some(f))
    \/ \E write \in WriteOutcomes : saveCommand(write)
    \/ \E file \in {disk, DiskMissing} : \E draw \in reloadDraws(file) :
          onConfigurationChanged(autoSave, confirmDelete, hideStaleComments, file,
                                 draw.clock, draw.randoms)

SpecPersist == InitPersist /\ [][NextPersist]_vars

(* A session of the sidebar editor: the editor is opened, from the document *)
(* or from the sidebar, once or several times, the user commits or         *)
(* cancels, a save message may come when nothing is pending, and the       *)
(* sidebar is built.  The edit message may name a comment or a file the    *)
(* store does not have.                                                    *)
(* The comments file of the start may be one of the old format with two    *)
(* lines, whose comments get their ids in this session.                    *)
InitEdit ==
    \E file \in InitialDisks \cup {DiskLegacyTwo} : InitWith(file, TRUE, TRUE, TRUE, LoadDraws(file))

NextEdit ==
    \/ \E f \in Files : \E sel \in Selections(docs[f]) : openCommentInput(f, sel)
    \/ \E text \in Texts : \E draw \in commitDraws(text, SameTimeDraws) :
          savePendingComment(text, "written", draw.clock, draw.random, PendingEditor)
    \/ cancelPendingComment
    \/ \E id \in MessageIds, f \in Files : editCommentById(id, f)
    \/ createSidebarHTML

SpecEdit == InitEdit /\ [][NextEdit]_vars

(* A session with deletions, confirmed or not: the delete message may name *)
(* a comment or a file the store does not have.  The comments file of the  *)
(* start may be one with a comment of the old format for line 0, which is  *)
(* migrated to line -1, in a session that has hideStaleComments on or off. *)
(* A handler runs with the editor of the file of that comment active, or   *)
(* with no active editor.                                                  *)
InitDelete ==
    \/ \E file \in InitialDisks, c \in BOOLEAN :
          InitWith(file, TRUE, c, TRUE, SameTimeLoadDraws(file))
    \/ \E c \in BOOLEAN, h \in BOOLEAN :
          InitWith(DiskLegacyZero, TRUE, c, h, SameTimeLoadDraws(DiskLegacyZero))

ActiveEditors == {None, Some(FileA)}

NextDelete ==
    \/ \E f \in Files : \E sel \in Selections(docs[f]) :
          pendingComment = <<>> /\ openCommentInput(f, sel)
    \/ \E editor \in ActiveEditors : \E draw \in commitDraws(<<"x">>, SameTimeDraws) :
          pendingComment # <<>>
          /\ savePendingComment(<<"x">>, "written", draw.clock, draw.random, editor)
    \/ \E id \in MessageIds, f \in Files, editor \in ActiveEditors :
          deleteCommentById(id, f, "written", editor)
    \/ \E dialog \in deleteDialogs, answer \in {"Delete", "Cancel"},
          editor \in ActiveEditors :
              answerDeleteDialog(dialog, answer, "written", editor)

SpecDelete == InitDelete /\ [][NextDelete]_vars

(* A session in which the settings autoSave and confirmDelete are changed,  *)
(* also while a confirmation of a delete is open; every write of the       *)
(* comments file succeeds and its location stays the same.  The setting    *)
(* hideStaleComments stays on, and the active editor is the one of the     *)
(* file that the message of the sidebar is about.                          *)
InitAutoSave ==
    \E a \in BOOLEAN, c \in BOOLEAN :
        InitWith(DiskMissing, a, c, TRUE, SameTimeLoadDraws(DiskMissing))

NextAutoSave ==
    \/ \E sel \in PersistSelections :
          pendingComment = <<>> /\ openCommentInput(PersistFile, sel)
    \/ \E text \in PersistTexts : \E draw \in commitDraws(text, SameTimeDraws) :
          pendingComment # <<>>
          /\ savePendingComment(text, "written", draw.clock, draw.random, PendingEditor)
    \/ \E f \in Files : \E id \in ListedIds(f) : editCommentById(id, f)
    \/ \E f \in Files : \E id \in ListedIds(f) : deleteCommentById(id, f, "written", Some(f))
    \/ \E dialog \in deleteDialogs, answer \in {"Delete", "Cancel"} :
          answerDeleteDialog(dialog, answer, "written", Some(dialog.fileName))
    \/ saveCommand("written")
    \/ \E a \in BOOLEAN, c \in BOOLEAN :
          \E draw \in reloadDraws(disk) :
              onConfigurationChanged(a, c, hideStaleComments, disk, draw.clock, draw.randoms)

SpecAutoSave == InitAutoSave /\ [][NextAutoSave]_vars

(* The sidebar built for the stores a comments file can give: up to        *)
(* MaxSidebarComments comments, each in one of the files or in none; the   *)
(* comments with an odd number have a timestamp, two of them the same one; *)
(* the comments of a file are in the order of their numbers or in the      *)
(* reverse order.                                                          *)
MaxSidebarComments == 6

SidebarComment(n) ==
    [id |-> IdString(n), text |-> <<"x">>,
     timestamp |-> IF n % 2 = 1 THEN Some(Num(((n + 1) \div 4) + 1)) ELSE None,
     range |-> NewCommentRange(Num(n - 1), Num(0), Num(n - 1), Num(0), None)]

RECURSIVE CommentsOfFile(_, _, _)
(* the comments that the assignment puts into the file, by ascending number *)
CommentsOfFile(assignment, f, n) ==
    IF n > MaxSidebarComments THEN <<>>
    ELSE (IF assignment[n] = f THEN <<SidebarComment(n)>> ELSE <<>>)
         \o CommentsOfFile(assignment, f, n + 1)

Reverse(seq) == [i \in 1..Len(seq) |-> seq[Len(seq) + 1 - i]]

SidebarStore(assignment, reversed) ==
    [f \in { g \in Files : \E n \in 1..MaxSidebarComments : assignment[n] = g } |->
        IF f \in reversed THEN Reverse(CommentsOfFile(assignment, f, 1))
        ELSE CommentsOfFile(assignment, f, 1)]

InitSidebar ==
    \E assignment \in [1..MaxSidebarComments -> Files \cup {<<>>}], reversed \in SUBSET Files :
        /\ commentData = SidebarStore(assignment, reversed)
        /\ keyOrder \in KeyOrders(commentData)
        /\ disk = Stringify(commentData, keyOrder)
        /\ pendingComment = <<>>
        /\ docs = [f \in Files |-> InitialDocument]
        /\ autoSave = TRUE
        /\ confirmDelete = FALSE
        /\ hideStaleComments = TRUE
        /\ deleteDialogs = {}
        /\ idCount = 0
        /\ lastOp = OpLoad("activate", "loaded", <<>>)

NextSidebar == createSidebarHTML

SpecSidebar == InitSidebar /\ [][NextSidebar]_vars

----------------------------------------------------------------------------
(* Properties *)

(* every file other than f has the same entry, or lack of entry, in both stores *)
OtherFilesSame(old, new, f) ==
    /\ (DOMAIN new) \ {f} = (DOMAIN old) \ {f}
    /\ \A g \in (DOMAIN old) \ {f} : new[g] = old[g]

Pending == pendingComment[1]

IsCommit == lastOp'.op = "savePendingComment" /\ pendingComment # <<>>

PendingFound ==
    /\ pendingComment # <<>>
    /\ TruthyString(Pending.existingCommentId)
    /\ \E i \in 1..Len(FileComments(commentData, Pending.fileName)) :
          commentData[Pending.fileName][i].id = Get(Pending.existingCommentId)

RECURSIVE Flatten(_)
(* the lines of a document joined by ends of line *)
Flatten(doc) ==
    IF Len(doc) = 1 THEN doc[1] ELSE doc[1] \o <<"\n">> \o Flatten(Tail(doc))

RECURSIVE LineStart(_, _)
(* number of characters of the flattened document before the given line *)
LineStart(doc, line) ==
    IF line = 0 THEN 0 ELSE LineStart(doc, line - 1) + Len(LineText(doc, line - 1)) + 1

(* offset of a position whose line exists; a column past the end of the    *)
(* line counts as the end of the line                                      *)
OffsetAt(doc, line, character) ==
    LineStart(doc, ToInt(line)) + ToInt(MinNum(character, lineLength(doc, line)))

(* the text between the coordinates of a range whose lines exist *)
TextAt(doc, r) ==
    SubSeq(Flatten(doc), OffsetAt(doc, r.startLine, r.startCharacter) + 1,
           OffsetAt(doc, r.endLine, r.endCharacter))

(* the pending comment stems from a selection, or a cursor, of the         *)
(* document: its coordinates are those of the selection and its            *)
(* selectedText is the text selected, or those of the whole cursor line    *)
(* without selectedText                                                    *)
PendingFromSelection(p, doc) ==
    \E sel \in Selections(doc) :
        IF sel.start = sel.end
        THEN /\ p.range.startLine = sel.start[1] /\ p.range.startCharacter = Num(0)
             /\ p.range.endLine = sel.start[1]
             /\ p.range.endCharacter = lineLength(doc, sel.start[1])
             /\ p.range.selectedText = None
        ELSE /\ p.range.startLine = sel.start[1] /\ p.range.startCharacter = sel.start[2]
             /\ p.range.endLine = sel.end[1] /\ p.range.endCharacter = sel.end[2]
             /\ p.range.selectedText = Some(TextAt(doc, p.range))
             /\ TextAt(doc, p.range) # <<>>

(* C1: when the editor was opened on a location without a comment of the   *)
(* same coordinates (the pending comment names no existing comment),       *)
(* committing text that is not blank appends exactly one comment to that   *)
(* file: its coordinates and selected text are the pending ones, which     *)
(* openCommentInput took from the selection or the cursor line             *)
(* (selectedText is the text selected, and is absent when the selection    *)
(* was empty), its text is the committed text, its id is not empty and is  *)
(* fresh, the id of no comment of the store, and its timestamp is the time *)
(* read at the commit; every comment stored before is unchanged.           *)
C1_CreateAppendsOne ==
    [][ /\ (IsCommit /\ ~IsSome(Pending.existingCommentId) /\ Trim(lastOp'.text) # <<>>) =>
            LET f == Pending.fileName
                old == FileComments(commentData, f)
                new == FileComments(commentData', f)
            IN  /\ OtherFilesSame(commentData, commentData', f)
                /\ Len(new) = Len(old) + 1
                /\ SubSeq(new, 1, Len(old)) = old
                /\ SameCoordinates(new[Len(new)].range, Pending.range)
                /\ new[Len(new)].range.selectedText = Pending.range.selectedText
                /\ new[Len(new)].text = lastOp'.text
                /\ new[Len(new)].id # <<>>
                /\ new[Len(new)].id \notin StoredIds(commentData)
                /\ new[Len(new)].timestamp = lastOp'.time
                /\ IsSome(lastOp'.time)
        /\ lastOp'.op = "openCommentInput" =>
            /\ pendingComment' # <<>>
            /\ PendingFromSelection(pendingComment'[1], docs[pendingComment'[1].fileName])
      ]_vars

(* C2: committing text that is not blank while the pending comment names a *)
(* stored comment changes only that comment's text (and its selectedText,  *)
(* when the pending range has one): id, timestamp, the four coordinates    *)
(* and the index are kept, no comment is added or removed.                 *)
C2_UpdateInPlace ==
    [][ (IsCommit /\ PendingFound /\ Trim(lastOp'.text) # <<>>) =>
            LET f == Pending.fileName
                old == commentData[f]
                i == IndexOfId(old, Get(Pending.existingCommentId))
            IN  /\ DOMAIN commentData' = DOMAIN commentData
                /\ \A g \in DOMAIN commentData :
                      /\ Len(commentData'[g]) = Len(commentData[g])
                      /\ \A j \in 1..Len(commentData[g]) :
                            (g # f \/ j # i) => commentData'[g][j] = commentData[g][j]
                /\ commentData'[f][i].text = lastOp'.text
                /\ commentData'[f][i].id = old[i].id
                /\ commentData'[f][i].timestamp = old[i].timestamp
                /\ SameCoordinates(commentData'[f][i].range, old[i].range)
                /\ commentData'[f][i].range.selectedText =
                      IF IsSome(Pending.range.selectedText)
                      THEN Pending.range.selectedText
                      ELSE old[i].range.selectedText
      ]_vars

(* a migrated comment, which has the sentinel end column, has been updated *)
C2_Witness ==
    /\ lastOp.op = "savePendingComment" /\ lastOp.outcome = "updated"
    /\ \E i \in 1..Len(FileComments(commentData, lastOp.fileName)) :
          LET c == commentData[lastOp.fileName][i]
          IN  /\ c.range.endCharacter = MAX_SAFE_INTEGER
              /\ c.timestamp = None
              /\ c.text = lastOp.text
              /\ c.text = <<"y">>

(* C3: committing blank text while the pending comment names a stored      *)
(* comment removes that comment; the file's entry is removed with its last *)
(* comment; all other comments are unchanged.                              *)
C3_BlankRemoves ==
    [][ (IsCommit /\ PendingFound /\ Trim(lastOp'.text) = <<>>) =>
            LET f == Pending.fileName
                old == commentData[f]
                i == IndexOfId(old, Get(Pending.existingCommentId))
            IN  /\ OtherFilesSame(commentData, commentData', f)
                /\ FileComments(commentData', f) = RemoveAt(old, i)
                /\ (Len(old) = 1) => (f \notin DOMAIN commentData')
                /\ (Len(old) > 1) => (f \in DOMAIN commentData')
      ]_vars

(* a blank commit removed the only comment of a file while the other file  *)
(* has a comment                                                           *)
C3_Witness ==
    /\ lastOp.op = "savePendingComment" /\ lastOp.outcome = "removed"
    /\ lastOp.fileName \notin DOMAIN commentData
    /\ commentData # EmptyObject

(* C4: no file of the store maps to an empty array.                        *)
C4_NoEmptyEntry == \A f \in DOMAIN commentData : Len(commentData[f]) > 0

(* C5: after a commit of text that is not blank, the file of the pending   *)
(* comment has a comment with the committed text.                          *)
C5_CommitKeepsText ==
    (/\ lastOp.op = "savePendingComment"
     /\ lastOp.outcome # "noPending"
     /\ Trim(lastOp.text) # <<>>)
    => \E i \in 1..Len(FileComments(commentData, lastOp.fileName)) :
          commentData[lastOp.fileName][i].text = lastOp.text

(* C6: committing blank text when no stored comment has the coordinates of *)
(* the pending comment leaves the store as it is: no comment and no entry  *)
(* is added.                                                               *)
C6_BlankCreateIsNoOp ==
    [][ (/\ IsCommit
         /\ Trim(lastOp'.text) = <<>>
         /\ findExistingCommentForRange(Pending.fileName, NewRange(Pending.range)) = None)
        => commentData' = commentData
      ]_vars

(* ranges looked up: those of the selections, a range that differs from    *)
(* them in the end column only, and the range of a migrated comment        *)
ProbeRanges(doc) ==
    { selectionRange(doc, sel) : sel \in Selections(doc) }
    \cup { [start |-> Position(0, 0), end |-> Position(0, 1)],
           [start |-> Position(0, 0), end |-> <<Num(0), MAX_SAFE_INTEGER>>],
           [start |-> Position(1, 0), end |-> <<Num(1), MAX_SAFE_INTEGER>>] }

FirstOf(S) == CHOOSE i \in S : \A j \in S : i <= j

(* C7: findExistingCommentForRange returns the first comment of the file,  *)
(* in the order of the store, whose four coordinates equal those of the    *)
(* range, whatever its selectedText, and undefined when there is none or   *)
(* the file has no entry                                                   *)
C7_FindByAnchor ==
    \A f \in Files : \A range \in ProbeRanges(docs[f]) :
        LET comments == FileComments(commentData, f)
            wanted == NewCommentRange(range.start[1], range.start[2],
                                      range.end[1], range.end[2], None)
            matches == { i \in 1..Len(comments) : SameCoordinates(comments[i].range, wanted) }
            found == findExistingCommentForRange(f, range)
        IN  IF matches = {} THEN found = None
            ELSE found = Some(comments[FirstOf(matches)])

(* the file has two comments with the same coordinates, which differ in    *)
(* id and text, and the editor was opened on these coordinates: the lookup *)
(* found the one the store has first                                       *)
C7_Witness ==
    /\ lastOp.op = "openCommentInput"
    /\ pendingComment # <<>>
    /\ \E i, j \in 1..Len(FileComments(commentData, Pending.fileName)) :
          LET first == commentData[Pending.fileName][i]
              second == commentData[Pending.fileName][j]
          IN  /\ i < j
              /\ SameCoordinates(first.range, second.range)
              /\ SameCoordinates(first.range, Pending.range)
              /\ first.id # second.id
              /\ first.text # second.text
              /\ Pending.existingCommentId = Some(first.id)
              /\ Pending.existingText = Some(first.text)
              /\ \A k \in 1..(i - 1) :
                    ~SameCoordinates(commentData[Pending.fileName][k].range, Pending.range)

----------------------------------------------------------------------------
(* Properties of the staleness check, stated on the document as one text   *)

RECURSIVE Words(_)
(* the maximal runs of characters that are not whitespace, in order *)
Words(s) ==
    LET t == TrimStart(s)
        n == IF \E i \in 1..Len(t) : IsWhitespace(t[i])
             THEN (CHOOSE i \in 1..Len(t) :
                      IsWhitespace(t[i]) /\ \A j \in 1..(i - 1) : ~IsWhitespace(t[j])) - 1
             ELSE Len(t)
    IN  IF t = <<>> THEN <<>>
        ELSE <<SubSeq(t, 1, n)>> \o Words(SubSeq(t, n + 1, Len(t)))

IsSpan(comment) == IsSome(comment.range.selectedText)

(* the stored text and the text now at the coordinates have the same words *)
SameWords(comment, doc) ==
    Words(TextAt(doc, comment.range)) = Words(Get(comment.range.selectedText))

(* C8: for a span comment, isCommentStillValid is false when the end line  *)
(* is at or beyond the line count, and otherwise true iff the text at the  *)
(* coordinates and the stored selectedText are equal up to leading and     *)
(* trailing whitespace and the length of the whitespace runs inside.       *)
C8_SpanValidity ==
    \A f \in DOMAIN commentData : \A i \in 1..Len(commentData[f]) :
        LET c == commentData[f][i]
        IN  IsSpan(c) =>
               (isCommentStillValid(c, docs[f])
                  = (Less(c.range.endLine, Num(lineCount(docs[f]))) /\ SameWords(c, docs[f])))

(* a span comment whose text at the coordinates changed, in whitespace     *)
(* only, is valid                                                          *)
C8_Witness ==
    \E f \in DOMAIN commentData : \E i \in 1..Len(commentData[f]) :
        LET c == commentData[f][i]
        IN  /\ IsSpan(c)
            /\ Less(c.range.endLine, Num(lineCount(docs[f])))
            /\ TextAt(docs[f], c.range) # Get(c.range.selectedText)
            /\ isCommentStillValid(c, docs[f])

(* the comment the last commit created *)
Created == LET cs == commentData[lastOp.fileName] IN cs[Len(cs)]

(* C9: a span comment is valid right after the commit that created it.     *)
C9_ValidAfterCreation ==
    (/\ lastOp.op = "savePendingComment" /\ lastOp.outcome = "created"
     /\ IsSpan(Created))
    => isCommentStillValid(Created, docs[lastOp.fileName])

(* the document changes of a step, told from the two documents *)
TrailingSpaceEdit(old, new) ==
    /\ Len(new) = Len(old)
    /\ \E k \in 1..Len(old) :
          /\ \/ new[k] = Append(old[k], " ")
             \/ old[k] = Append(new[k], " ")
          /\ \A j \in 1..Len(old) : j # k => new[j] = old[j]

(* new is old with an empty line inserted as line k (zero-based) *)
BlankLineInserted(old, new, k) ==
    /\ Len(new) = Len(old) + 1
    /\ k \in 0..Len(old)
    /\ new = InsertLineAt(old, k, <<>>)

(* a blank line is inserted or removed between the first and the last line *)
(* of the comment's range, or a trailing space is added or removed         *)
WhitespaceEditInside(comment, old, new) ==
    \/ TrailingSpaceEdit(old, new)
    \/ \E k \in (ToInt(comment.range.startLine) + 1)..ToInt(comment.range.endLine) :
          BlankLineInserted(old, new, k) \/ BlankLineInserted(new, old, k)

(* C10 as claimed: inserting or removing blank lines or trailing spaces    *)
(* inside the span keeps a valid span comment valid.                       *)
C10_WhitespaceInsensitive ==
    [][ \A f \in DOMAIN commentData : \A i \in 1..Len(commentData[f]) :
            LET c == commentData[f][i]
            IN  (/\ commentData' = commentData
                 /\ IsSpan(c)
                 /\ WhitespaceEditInside(c, docs[f], docs'[f])
                 /\ isCommentStillValid(c, docs[f]))
                => isCommentStillValid(c, docs'[f])
      ]_vars

(* C10 amended: adding or removing trailing spaces leaves the validity of  *)
(* every span comment as it was.                                           *)
C10_TrailingSpaceInsensitive ==
    [][ \A f \in DOMAIN commentData : \A i \in 1..Len(commentData[f]) :
            LET c == commentData[f][i]
            IN  (/\ commentData' = commentData
                 /\ IsSpan(c)
                 /\ TrailingSpaceEdit(docs[f], docs'[f]))
                => (isCommentStillValid(c, docs'[f]) = isCommentStillValid(c, docs[f]))
      ]_vars

(* a valid span comment over two lines whose first line has got a trailing *)
(* space inside the span                                                   *)
C10_Witness ==
    /\ lastOp.op = "onDidChangeTextDocument"
    /\ \E f \in DOMAIN commentData : \E i \in 1..Len(commentData[f]) :
          LET c == commentData[f][i]
          IN  /\ IsSpan(c)
              /\ Less(c.range.startLine, c.range.endLine)
              /\ Less(c.range.endLine, Num(lineCount(docs[f])))
              /\ Len(TextAt(docs[f], c.range)) > Len(Get(c.range.selectedText))
              /\ isCommentStillValid(c, docs[f])

----------------------------------------------------------------------------
(* Line comments *)

IsLineComment(comment) == comment.range.selectedText = None

(* C11: a line comment (no selectedText) is valid exactly when the         *)
(* document has at least startLine + 1 lines, whatever the line contains;  *)
(* so an edit of the document that keeps the number of lines leaves the    *)
(* validity of every line comment as it was.                               *)
C11_LineValidity ==
    /\ [](\A f \in DOMAIN commentData : \A i \in 1..Len(commentData[f]) :
            LET c == commentData[f][i]
            IN  IsLineComment(c) =>
                   (isCommentStillValid(c, docs[f])
                      = Less(c.range.startLine, Num(lineCount(docs[f])))))
    /\ [][ \A f \in DOMAIN commentData : \A i \in 1..Len(commentData[f]) :
              LET c == commentData[f][i]
              IN  (/\ commentData' = commentData
                   /\ IsLineComment(c)
                   /\ lineCount(docs'[f]) = lineCount(docs[f])
                   /\ isCommentStillValid(c, docs[f]))
                  => isCommentStillValid(c, docs'[f])
          ]_vars

(* after an edit of the document, a line comment is valid on a line whose  *)
(* length is no longer the one it had when the comment was made, and       *)
(* another line comment is not valid because its line is past the end      *)
C11_Witness ==
    /\ lastOp.op = "onDidChangeTextDocument"
    /\ \E f \in DOMAIN commentData : \E i, j \in 1..Len(commentData[f]) :
          LET c == commentData[f][i]
              d == commentData[f][j]
          IN  /\ IsLineComment(c) /\ IsLineComment(d)
              /\ Less(c.range.startLine, Num(lineCount(docs[f])))
              /\ c.range.endCharacter # MAX_SAFE_INTEGER
              /\ lineLength(docs[f], c.range.startLine) # c.range.endCharacter
              /\ isCommentStillValid(c, docs[f])
              /\ ~Less(d.range.startLine, Num(lineCount(docs[f])))
              /\ ~isCommentStillValid(d, docs[f])

----------------------------------------------------------------------------
(* Loading and saving *)

(* the last step was a load of the comments file *)
Loaded == lastOp.op \in {"activate", "onConfigurationChanged"}

(* the files whose value in the comments file is an old-format object *)
LegacyFiles(file) ==
    IF file.kind = "json"
    THEN { f \in DOMAIN file.data : file.data[f].type = "object" }
    ELSE {}

(* the comments file holds no null value *)
WellFormed(file) ==
    file.kind # "malformed" /\ \A f \in DOMAIN file.data : file.data[f].type # "null"

(* comment c is the migration of the old-format entry e *)
MigratedFrom(c, e) ==
    /\ c.text = Unescape(e.commentText)
    /\ c.timestamp = None
    /\ c.range.selectedText = None
    /\ ~IsNegative(c.range.startLine)
    /\ NumberToDigits(Plus(c.range.startLine, Num(1))) = e.lineNumberStr
    /\ c.range.endLine = c.range.startLine
    /\ c.range.startCharacter = Num(0)
    /\ c.range.endCharacter = MAX_SAFE_INTEGER

(* C12: after a load, each file that the comments file has in the old      *)
(* format has one comment per old-format entry, in the order of the        *)
(* entries: the text is the entry's text, there is no timestamp and no     *)
(* selectedText, startLine = endLine = line number - 1, startCharacter = 0 *)
(* and endCharacter is the sentinel; its id is not empty and is fresh: it  *)
(* is not the id of any other stored comment nor of any comment stored     *)
(* before the load.                                                        *)
C12_LegacyMigration ==
    /\ [](Loaded /\ WellFormed(disk) =>
             \A f \in LegacyFiles(disk) :
                 /\ f \in DOMAIN commentData
                 /\ Len(commentData[f]) = Len(disk.data[f].items)
                 /\ \A i \in 1..Len(commentData[f]) :
                       /\ MigratedFrom(commentData[f][i], ObjectEntries(disk.data[f].items)[i])
                       /\ commentData[f][i].id # <<>>
                       /\ \A g \in DOMAIN commentData : \A j \in 1..Len(commentData[g]) :
                             (g # f \/ j # i) => commentData[g][j].id # commentData[f][i].id)
    /\ [][ lastOp'.op = "onConfigurationChanged" =>
              \A f \in LegacyFiles(disk') : \A i \in 1..Len(commentData'[f]) :
                  commentData'[f][i].id \notin StoredIds(commentData)
          ]_vars

(* the files whose value in the comments file is a new-format array *)
ArrayFiles(file) ==
    IF file.kind = "json"
    THEN { f \in DOMAIN file.data : file.data[f].type = "array" }
    ELSE {}

(* C13: after a load, each file that the comments file has in the new      *)
(* format has the comments of the file, with their ids, texts, timestamps  *)
(* and ranges as written; and a reload of a comments file that is the      *)
(* saved store, migrated comments included, changes nothing and generates  *)
(* no id.                                                                  *)
C13_NewFormatPassesThrough ==
    /\ [](Loaded /\ WellFormed(disk) =>
             \A f \in ArrayFiles(disk) :
                 /\ f \in DOMAIN commentData
                 /\ Len(commentData[f]) = Len(disk.data[f].items)
                 /\ \A i \in 1..Len(commentData[f]) :
                       StringifyComment(commentData[f][i]) = disk.data[f].items[i])
    /\ [][ (/\ lastOp'.op = "onConfigurationChanged"
             /\ disk' = disk
             /\ disk = Stringify(commentData, keyOrder))
            => (commentData' = commentData /\ keyOrder' = keyOrder
                /\ lastOp'.generated = <<>>)
          ]_vars

(* a migrated comment and a comment made in this session were saved and    *)
(* then loaded again                                                       *)
C13_Witness ==
    /\ lastOp.op = "onConfigurationChanged" /\ lastOp.outcome = "loaded"
    /\ disk = Stringify(commentData, keyOrder)
    /\ \E f, g \in DOMAIN commentData :
          \E i \in 1..Len(commentData[f]), j \in 1..Len(commentData[g]) :
             /\ commentData[f][i].range.endCharacter = MAX_SAFE_INTEGER
             /\ commentData[f][i].timestamp = None
             /\ IsSome(commentData[g][j].timestamp)
             /\ IsSome(commentData[g][j].range.selectedText)

(* C14: the comments file a successful save writes, loaded by a new        *)
(* session or loaded again by this one, gives the store that was saved:    *)
(* the same files in the same order, and for each the same comments in the *)
(* same order with the same id, text, range and selectedText, the          *)
(* timestamp where there is one and none where there is none, and the      *)
(* sentinel end column of the migrated comments.                           *)
C14_RoundTrip ==
    LET file == saveComments(commentData, keyOrder, disk, "written")
        saved == [data |-> commentData, keys |-> keyOrder, used |-> 0]
    IN  /\ loadComments(EmptyObject, <<>>, file, <<>>) = saved
        /\ loadComments(commentData, keyOrder, file, <<>>) = saved

(* the save command has written a store with a migrated comment, which has *)
(* no timestamp and the sentinel end column, and a comment with a          *)
(* timestamp whose selected text runs over two lines                       *)
C14_Witness ==
    /\ lastOp.op = "saveComments" /\ lastOp.outcome = "saved"
    /\ disk = Stringify(commentData, keyOrder)
    /\ \E f, g \in DOMAIN commentData :
          \E i \in 1..Len(commentData[f]), j \in 1..Len(commentData[g]) :
             /\ commentData[f][i].range.endCharacter = MAX_SAFE_INTEGER
             /\ commentData[f][i].timestamp = None
             /\ IsSome(commentData[g][j].timestamp)
             /\ IsSome(commentData[g][j].range.selectedText)
             /\ \E k \in 1..Len(Get(commentData[g][j].range.selectedText)) :
                   Get(commentData[g][j].range.selectedText)[k] = "\n"

(* C15: after a load of a comments file that does not parse, or that has a *)
(* null value, the store is empty.                                         *)
C15_MalformedLoadsEmpty ==
    (Loaded /\ ~WellFormed(disk)) => commentData = EmptyObject

(* the comments of file f are those the comments file has for it *)
AsSaved(f) ==
    /\ Len(commentData[f]) = Len(disk.data[f].items)
    /\ \A i \in 1..Len(commentData[f]) :
          IF disk.data[f].type = "array"
          THEN StringifyComment(commentData[f][i]) = disk.data[f].items[i]
          ELSE MigratedFrom(commentData[f][i], ObjectEntries(disk.data[f].items)[i])

(* C16: after a load of a comments file without null values, the store has *)
(* the files of the comments file, each with its comments as saved or      *)
(* migrated; it is empty when there is no comments file.                   *)
C16_LoadGivesSaved ==
    (Loaded /\ WellFormed(disk)) =>
        /\ DOMAIN commentData = DOMAIN disk.data
        /\ \A f \in DOMAIN commentData : AsSaved(f)

(* the write of the comments file by the step failed: autoSave is on and   *)
(* the file is not the store                                               *)
WriteFailed == disk' # Stringify(commentData', keyOrder')

(* C17: when the write of the comments file fails, whether the file is     *)
(* left as before or emptied, the store keeps what the handler did to it:  *)
(* the comment a commit created, updated or removed, and the comment a     *)
(* delete removed; a failed save command leaves the store as it was.       *)
C17_FailedWriteKeepsMutation ==
    [][ /\ (IsCommit /\ autoSave /\ WriteFailed) =>
            LET f == Pending.fileName
                old == FileComments(commentData, f)
                new == FileComments(commentData', f)
            IN  /\ pendingComment' = <<>>
                /\ lastOp'.outcome = "created" =>
                      /\ Len(new) = Len(old) + 1
                      /\ new[Len(new)].text = lastOp'.text
                      /\ SubSeq(new, 1, Len(old)) = old
                /\ lastOp'.outcome = "updated" =>
                      /\ Len(new) = Len(old)
                      /\ new[IndexOfId(old, Get(Pending.existingCommentId))].text = lastOp'.text
                /\ lastOp'.outcome = "removed" =>
                      /\ IndexOfId(old, Get(Pending.existingCommentId)) # 0
                      /\ Len(new) = Len(old) - 1
                      /\ new = RemoveAt(old, IndexOfId(old, Get(Pending.existingCommentId)))
                      /\ OtherFilesSame(commentData, commentData', f)
        /\ (/\ lastOp'.op = "deleteCommentById" /\ lastOp'.outcome = "removed"
             /\ autoSave /\ WriteFailed) =>
                LET f == lastOp'.fileName
                    old == FileComments(commentData, f)
                    new == FileComments(commentData', f)
                IN  /\ IndexOfId(old, lastOp'.id) # 0
                    /\ Len(new) = Len(old) - 1
                    /\ new = RemoveAt(old, IndexOfId(old, lastOp'.id))
                    /\ OtherFilesSame(commentData, commentData', f)
        /\ (lastOp'.op = "saveComments" /\ lastOp'.outcome = "failed") =>
                (commentData' = commentData /\ disk' \in {disk, DiskMalformed})
      ]_vars

(* a commit created a comment, next to a migrated one, while the write of   *)
(* the comments file failed, and a failed write has emptied the file       *)
C17_Witness ==
    /\ lastOp.op = "savePendingComment" /\ lastOp.outcome = "created"
    /\ autoSave
    /\ disk = DiskMalformed
    /\ \E f \in DOMAIN commentData : \E i \in 1..Len(commentData[f]) :
          commentData[f][i].timestamp = None
    /\ \E i \in 1..Len(FileComments(commentData, lastOp.fileName)) :
          commentData[lastOp.fileName][i].text = lastOp.text

(* C18: a stored comment stays in its file, with its coordinates and its   *)
(* text, over every step except a delete and a commit of the pending edit  *)
(* of that comment.                                                        *)
C18_NoDataLoss ==
    [][ \A f \in DOMAIN commentData : \A i \in 1..Len(commentData[f]) :
            LET c == commentData[f][i]
            IN  (/\ lastOp'.op # "deleteCommentById"
                 /\ ~(IsCommit /\ Pending.existingCommentId = Some(c.id)))
                => \E j \in 1..Len(FileComments(commentData', f)) :
                      /\ SameCoordinates(commentData'[f][j].range, c.range)
                      /\ commentData'[f][j].text = c.text
      ]_vars

----------------------------------------------------------------------------
(* Frame conditions *)

(* C19: opening the comment editor (from the document or the sidebar, also *)
(* when an edit is already pending, which the new one replaces),           *)
(* cancelling, a save message when nothing is pending and building the     *)
(* sidebar leave the store, the order of its keys included, and the        *)
(* comments file unchanged; after a cancel or a commit nothing is pending. *)
C19_NothingWrittenUntilCommit ==
    [][ /\ (\/ lastOp'.op \in {"openCommentInput", "editCommentById",
                                "cancelPendingComment", "createSidebarHTML"}
             \/ (lastOp'.op = "savePendingComment" /\ pendingComment = <<>>))
            => (commentData' = commentData /\ keyOrder' = keyOrder /\ disk' = disk)
        /\ lastOp'.op \in {"cancelPendingComment", "savePendingComment"}
            => pendingComment' = <<>>
        /\ lastOp'.op = "openCommentInput"
            => /\ Len(pendingComment') = 1
               /\ PendingFromSelection(pendingComment'[1], docs[pendingComment'[1].fileName])
        /\ (lastOp'.op = "savePendingComment" /\ pendingComment = <<>>)
            => lastOp'.outcome = "noPending"
      ]_vars

(* a save message came when nothing was pending, in a session that has     *)
(* stored a comment and whose comments file is written                     *)
C19_Witness ==
    /\ lastOp.op = "savePendingComment" /\ lastOp.outcome = "noPending"
    /\ Trim(lastOp.text) # <<>>
    /\ pendingComment = <<>>
    /\ commentData # EmptyObject
    /\ disk = Stringify(commentData, keyOrder)

(* C20: a delete that finds the comment removes the comment with that id   *)
(* from that file, so that the file has no comment with that id any more,  *)
(* and the file's key with its last comment, and leaves all other comments *)
(* and files as they are; a delete that names a file or an id the store    *)
(* does not have, a delete that waits for the confirmation, and a          *)
(* confirmation answered with anything but Delete leave the store and the  *)
(* comments file unchanged.  With confirmDelete off the delete acts at     *)
(* once.                                                                   *)
C20_DeleteFrame ==
    [][ lastOp'.op = "deleteCommentById" =>
           LET f == lastOp'.fileName
               id == lastOp'.id
               old == FileComments(commentData, f)
               listed == \E i \in 1..Len(old) : old[i].id = id
               answered == deleteDialogs' # deleteDialogs /\ deleteDialogs' \subseteq deleteDialogs
           IN  /\ lastOp'.outcome = "removed" =>
                     /\ listed
                     /\ FileComments(commentData', f) = RemoveAt(old, IndexOfId(old, id))
                     /\ \A j \in 1..Len(FileComments(commentData', f)) :
                           commentData'[f][j].id # id
                     /\ (f \in DOMAIN commentData') = (Len(old) > 1)
                     /\ OtherFilesSame(commentData, commentData', f)
               /\ lastOp'.outcome # "removed" =>
                     (commentData' = commentData /\ disk' = disk)
               /\ lastOp'.outcome = "notFound" => ~listed
               /\ (~confirmDelete /\ ~answered) =>
                     lastOp'.outcome = (IF listed THEN "removed" ELSE "notFound")
               /\ (confirmDelete /\ ~answered) => lastOp'.outcome = "asking"
               /\ answered => lastOp'.outcome \in {"declined", "removed", "notFound"}
      ]_vars

----------------------------------------------------------------------------
(* The sidebar sequence *)

Built == lastOp.op = "createSidebarHTML"

(* the comments in the order of the store and of the keys the build read *)
Stored == allComments(lastOp.keys, commentData)

HasTimestamp(item) == IsSome(item.comment.timestamp)

(* the positions of the sequence whose comment has a timestamp, and has none *)
TimedAt(seq) == { i \in 1..Len(seq) : HasTimestamp(seq[i]) }
UntimedAt(seq) == { i \in 1..Len(seq) : ~HasTimestamp(seq[i]) }

(* the position of an item in a sequence in which it occurs once *)
PositionIn(seq, item) == CHOOSE i \in 1..Len(seq) : seq[i] = item

(* C21: in the sequence built, the comments with a timestamp are in        *)
(* descending order of timestamp, those with equal timestamps in the order *)
(* of the store; if there is one, the first element of the sequence is a   *)
(* comment whose timestamp is the greatest.                                *)
C21_TimedNewestFirst ==
    Built =>
        LET seq == lastOp.result
        IN  /\ \A i, j \in TimedAt(seq) :
                  i < j =>
                     /\ ~Less(Get(seq[i].comment.timestamp), Get(seq[j].comment.timestamp))
                     /\ Get(seq[i].comment.timestamp) = Get(seq[j].comment.timestamp)
                           => PositionIn(Stored, seq[i]) < PositionIn(Stored, seq[j])
            /\ TimedAt(Stored) # {} =>
                  /\ HasTimestamp(seq[1])
                  /\ \A k \in TimedAt(Stored) :
                        ~Less(Get(seq[1].comment.timestamp), Get(Stored[k].comment.timestamp))

(* the sidebar was built for three comments with a timestamp and three     *)
(* without, two of the former with equal timestamps that the store has in  *)
(* descending order of line                                                *)
C21_Witness ==
    /\ Built
    /\ Cardinality(TimedAt(lastOp.result)) = 3
    /\ Cardinality(UntimedAt(lastOp.result)) = 3
    /\ \E i, j \in TimedAt(lastOp.result) :
          /\ i < j
          /\ lastOp.result[i].comment.timestamp = lastOp.result[j].comment.timestamp
          /\ Less(lastOp.result[j].comment.range.startLine,
                  lastOp.result[i].comment.range.startLine)

(* C22: the sequence built is one comment with a timestamp followed by up  *)
(* to two without, repeated: the k-th comment with a timestamp, counting   *)
(* from 0, has exactly min(2k, number of comments without timestamp)       *)
(* comments without timestamp before it, and the comments of each kind are *)
(* in the order of their own list, the sorted one and the shuffled one.    *)
C22_Interleaved ==
    Built =>
        LET seq == lastOp.result
        IN  /\ \A p \in TimedAt(seq) :
                  Cardinality({ u \in UntimedAt(seq) : u < p })
                     = Min(2 * Cardinality({ t \in TimedAt(seq) : t < p }),
                           Cardinality(UntimedAt(seq)))
            /\ SelectSeq(seq, TruthyTimestamp)
                  = sortNewestFirst(timestampedComments(Stored), <<>>)
            /\ SelectSeq(seq, NotTruthyTimestamp)
                  = shuffle(nonTimestampedComments(Stored))

(* the sidebar was built for two comments with a timestamp and three       *)
(* without: the last of the three follows the second comment with a        *)
(* timestamp                                                               *)
C22_Witness ==
    /\ Built
    /\ Cardinality(TimedAt(lastOp.result)) = 2
    /\ Cardinality(UntimedAt(lastOp.result)) = 3
    /\ TimedAt(lastOp.result) = {1, 4}

(* the comments without timestamp in the order the sequence built has them *)
UntimedBuilt == SelectSeq(lastOp.result, NotTruthyTimestamp)

(* C23 as stated: the order of the comments without timestamp in the       *)
(* sequence built is that of the shuffle of these comments in any order    *)
(* the store can hold them in.                                             *)
C23_OrderFromSetAlone ==
    Built =>
        \A other \in ItemOrders(nonTimestampedComments(Stored)) :
            shuffle(other) = UntimedBuilt

(* of each comment the file name and the id only: the other members are    *)
(* those of a comment without text on the first line                       *)
IdsOnly(items) ==
    [i \in 1..Len(items) |->
        [fileName |-> items[i].fileName,
         comment |-> [id |-> items[i].comment.id, text |-> <<>>, timestamp |-> None,
                      range |-> NewCommentRange(Num(0), Num(0), Num(0), Num(0), None)]]]

(* C23 amended: the order of the comments without timestamp in the         *)
(* sequence built is determined by their ids and file names together with  *)
(* the order in which the store holds them: it is the order the swaps give *)
(* to comments that have these ids and file names, in this order, and      *)
(* nothing else in common with them.                                       *)
C23_OrderFromIdsInStoredOrder ==
    Built =>
        IdsOnly(UntimedBuilt) = shuffle(IdsOnly(nonTimestampedComments(Stored)))

(* the sidebar was built for three comments without timestamp that another *)
(* order in the store would put in another order                           *)
C23_Witness ==
    /\ Built
    /\ Len(UntimedBuilt) = 3
    /\ \E other \in ItemOrders(nonTimestampedComments(Stored)) :
          shuffle(other) # UntimedBuilt

(* h := 31 * h + code, wrapped to a signed 32-bit integer: the product is  *)
(* computed on the two 16-bit halves of h                                  *)
PolyStep(h, code) ==
    LET lo == 31 * Lo16(h) + code
    IN  ToInt32((31 * Hi16(h) + (lo \div Half)) % Half, lo % Half)

RECURSIVE PolyHashFrom(_, _)
PolyHashFrom(str, h) ==
    IF str = <<>> THEN h
    ELSE CHOOSE r \in { PolyHashFrom(Tail(str), next) :
                           next \in { PolyStep(h, CharCode(Head(str))) } } : TRUE

(* the polynomial rolling hash of the id followed by the file name *)
PolyHash(item) == PolyHashFrom(item.comment.id \o item.fileName, 0)

(* the comments without timestamp in the order the shuffle starts from,    *)
(* for the keys in the given order                                         *)
UntimedStored(keys) == nonTimestampedComments(allComments(keys, commentData))

(* C24: for every comment without timestamp of the store, the hash the     *)
(* shuffle computes is the polynomial rolling hash of its id followed by   *)
(* its file name, and at every step i of the shuffle, from the last index  *)
(* down to 1, the swap index computed from it is in 0..i.                  *)
C24_HashAndSwapIndex ==
    \A keys \in KeyOrders(commentData) :
        \A n \in 1..Len(UntimedStored(keys)) :
            /\ hash(UntimedStored(keys)[n]) = PolyHash(UntimedStored(keys)[n])
            /\ \A i \in 1..(Len(UntimedStored(keys)) - 1) :
                  swapIndex(hash(UntimedStored(keys)[n]), i + 1) \in 0..i

(* the sidebar was built for three comments without timestamp, and the     *)
(* hash of the one at index 2, the first the shuffle looks at, is the      *)
(* smallest 32-bit integer                                                 *)
C24_Witness ==
    /\ Built
    /\ Len(UntimedStored(lastOp.keys)) = 3
    /\ hash(UntimedStored(lastOp.keys)[3]) = MinInt32
    /\ swapIndex(MinInt32, 3) = 2

(* C27: the sequence built has every comment of the store, with its file   *)
(* name, exactly once and nothing else; it is empty when the store is.     *)
C27_Permutation ==
    Built =>
        /\ Len(lastOp.result) = Len(Stored)
        /\ \A n \in 1..Len(Stored) :
              Cardinality({ i \in 1..Len(lastOp.result) : lastOp.result[i] = Stored[n] }) = 1
        /\ \A i \in 1..Len(lastOp.result) :
              \E n \in 1..Len(Stored) : lastOp.result[i] = Stored[n]
        /\ StoredIds(commentData) = {} => lastOp.result = <<>>

(* the sidebar was built for six comments in two files, in another order   *)
(* than that of the store                                                  *)
C27_Witness ==
    /\ Built
    /\ Len(Stored) = 6
    /\ Cardinality(DOMAIN commentData) = 2
    /\ lastOp.result # Stored

----------------------------------------------------------------------------
(* Texts and anchors of the stored comments *)

(* the comments of the store, of all files *)
StoredComments(data) ==
    UNION { { data[f][i] : i \in 1..Len(data[f]) } : f \in DOMAIN data }

(* C25: every comment of the store has a text that is not blank, after any *)
(* sequence of opens, commits, cancels, sidebar edits and deletes from a   *)
(* store of which this is true.                                            *)
C25_NoBlankText ==
    \A comment \in StoredComments(commentData) : Trim(comment.text) # <<>>

(* a blank text was committed for a stored comment, which was removed,     *)
(* while another comment stays in the store                                *)
C25_Witness ==
    /\ lastOp.op = "savePendingComment"
    /\ lastOp.text = <<"\t", " ">>
    /\ lastOp.outcome = "removed"
    /\ StoredComments(commentData) # {}

(* a comment that is in both stores, in the same file with the same id and *)
(* the same coordinates, has a selectedText in both or in none             *)
AnchorKindKept(before, after) ==
    \A f \in (DOMAIN before) \cap (DOMAIN after) :
        \A i \in 1..Len(before[f]), j \in 1..Len(after[f]) :
            (/\ before[f][i].id = after[f][j].id
             /\ SameCoordinates(before[f][i].range, after[f][j].range))
            => (IsSome(before[f][i].range.selectedText)
                  = IsSome(after[f][j].range.selectedText))

(* C26: no step changes the kind of a stored comment: a comment stored     *)
(* without selectedText, a line comment, never gets one, and a comment     *)
(* stored with selectedText never loses it.                                *)
C26_AnchorKindNeverChanges == [][AnchorKindKept(commentData, commentData')]_vars

(* C28: no file of the store has two comments with the same four           *)
(* coordinates, after any sequence of opens, commits, sidebar edits,       *)
(* deletes, saves and configuration changes.                               *)
C28_NoDuplicateAnchors ==
    \A f \in DOMAIN commentData :
        \A i, j \in 1..Len(commentData[f]) :
            i # j => ~SameCoordinates(commentData[f][i].range, commentData[f][j].range)

(* the user's delete took the comment with the id of the message out of    *)
(* the store                                                               *)
RemovedByUser ==
    /\ lastOp.op = "deleteCommentById"
    /\ lastOp.outcome = "removed"

(* C29: once the user has deleted a comment, the store has no comment with *)
(* its id in a later state, configuration changes included: here, in the   *)
(* state that follows the delete.                                          *)
C29_RemovedIdNeverBack ==
    [][RemovedByUser => lastOp.id \notin StoredIds(commentData')]_vars

(* the step ends a commit, or a delete that removed a comment *)
CommitOrDeleteDone(op) ==
    \/ op.op = "savePendingComment" /\ op.outcome # "noPending"
    \/ op.op = "deleteCommentById" /\ op.outcome = "removed"

(* C30: when a commit or a delete ends and writes succeed, the comments    *)
(* file is the saved store if autoSave is on, and is not touched if        *)
(* autoSave is off.                                                        *)
C30_WritesFollowAutoSave ==
    [][CommitOrDeleteDone(lastOp') =>
          IF autoSave THEN disk' = Stringify(commentData', keyOrder') ELSE disk' = disk]_vars

====
